---- MODULE Spec2Model ----
(***************************************************************************)
(* Payment reconciliation and outstanding-balance engine of the textile    *)
(* trading ERP: the payments ledger, the denormalised total_paid /         *)
(* outstanding / payment_status fields of sales invoices and purchase      *)
(* challans, and the request handlers that keep them in step.              *)
(*                                                                         *)
(* Money is counted in units of 0.01 (the rounding tolerance of the status *)
(* derivation), so every amount is an integer and Eps is 1.                *)
(* Every await of a handler is one step: another request, or the end of    *)
(* the process, can come between any two of them.                          *)
(***************************************************************************)
EXTENDS Integers, Sequences, FiniteSets, TLC

VARIABLES
    sales_invoices,     \* collection sales_invoices: invoice id -> document
    purchase_challans,  \* collection purchase_challans: challan id -> document
    payments,           \* collection payments: payment id -> document (present ids only)
    bank_transactions,  \* collection bank_transactions: set of passbook entries
    inserted,           \* number of payment documents ever inserted (ids are never reused)
    proc,               \* per request slot: the handler running in it and its locals
    orphaned,           \* history: (payment, target) left without recompute by a creation
                        \* that ended between its insert and that target's update
    call,               \* the last call of a payment_service function: name, arguments
                        \* and returned value
    challan_stock,      \* collection purchase_challans, the inventory fields of its
                        \* documents: challan id -> boxes and meters (present ids only)
    inventory_transfers,\* collection inventory_transfers: transfer id -> document
    minted,             \* number of recipient challans ever inserted by transfers
    task,               \* per slot: the transfer operation running in it and its locals
    counters,           \* collection counters: prefix -> seq (present prefixes only)
    numbering,          \* per slot: the generate_sequence_number call running in it
    issued              \* history: the numbers returned, in the order the calls took effect

\* the inventory side of the store and the operations on it
inventory == <<challan_stock, inventory_transfers, minted, task>>

\* the sequence counters and the calls on them
sequences == <<counters, numbering, issued>>

vars == <<sales_invoices, purchase_challans, payments, bank_transactions,
          inserted, proc, orphaned, call, inventory, sequences>>

----------------------------------------------------------------------------
(* Bounds of the model *)

MaxPayments == 2        \* payment documents inserted in one behaviour
MaxAmt == 1             \* largest allocation amount of a request
TotalAmount == 3        \* total_amount of every invoice and challan

MaxLines == 2           \* allocation lines of a payment the ledger starts with
MaxTime == 3            \* latest instant of a due date or of the clock
MaxRate == 2            \* largest interest rate, percent a year

MaxBoxes == 2           \* total_boxes of a purchased challan, and most boxes of a recipient
MaxMeters == 2          \* total_meters of a purchased challan
MaxTransfers == 2       \* transfer records inserted in one behaviour
MaxMinted == 2          \* recipient challans inserted in one behaviour

MaxRupees == 1          \* largest total_amount an invoice edit computes, in rupees

Eps == 1                \* 0.01, the tolerance of determine_invoice_payment_status
Rupee == 100            \* round() makes the edited total_amount a whole number of rupees
DayParts == 2           \* instants in a day: timedelta.days drops the part of a day

InvoiceOrder == <<"inv1", "inv2">>   \* the invoices, in the order a form lists them
ChallanOrder == <<"ch1">>
InvoiceIds == {InvoiceOrder[n] : n \in DOMAIN InvoiceOrder}
ChallanIds == {ChallanOrder[n] : n \in DOMAIN ChallanOrder}
PaymentIds == 1 .. MaxPayments
Amounts == -1 .. MaxAmt          \* float(inv_data["amount"]) takes any number
Procs == {"r1", "r2"}
TargetIds == InvoiceIds \cup ChallanIds
Times == 0 .. MaxTime
Rates == -1 .. MaxRate
MintedOrder == <<"rc1", "rc2", "rc3", "rc4">>   \* the ids insert_one gives to recipient challans
PartyIds == {"pa", "pz"}         \* the party ids a request can name
TransferIds == 1 .. MaxTransfers

----------------------------------------------------------------------------
(* Documents *)

\* an optional value: None, or the value
None == <<>>
Some(v) == <<v>>

\* create_invoice: payment_status "unpaid", no total_paid / outstanding field yet;
\* due_date and interest_rate come from the form and the customer, and no
\* interest_amount field is written
NewInvoice ==
    [present |-> TRUE, total_amount |-> TotalAmount, payment_status |-> "unpaid",
     paid_fields |-> FALSE, total_paid |-> 0, outstanding |-> 0,
     due_date |-> Some(1), interest_rate |-> 2, interest_amount |-> None]

\* create_challan: no payment_status, total_paid or outstanding field yet
NewChallan ==
    [present |-> TRUE, total_amount |-> TotalAmount, payment_status |-> "none",
     paid_fields |-> FALSE, total_paid |-> 0, outstanding |-> 0,
     due_date |-> None, interest_rate |-> 0, interest_amount |-> None]

\* what find_one returns for an id that is not in the collection
NoDoc ==
    [present |-> FALSE, total_amount |-> 0, payment_status |-> "none",
     paid_fields |-> FALSE, total_paid |-> 0, outstanding |-> 0,
     due_date |-> None, interest_rate |-> 0, interest_amount |-> None]

\* the inventory fields of a challan document: all of the stock available, nothing
\* transferred yet
NewStock(boxes, meters, via_transfer, source) ==
    [total_boxes |-> boxes, total_meters |-> meters,
     available_boxes |-> boxes, available_meters |-> meters,
     transferred_boxes |-> 0, transferred_meters |-> 0,
     is_transfer_source |-> FALSE, is_received_via_transfer |-> via_transfer,
     transfer_source_id |-> source]

\* collection parties: the ids that have a document
parties == {"pa"}

NoPayment ==
    [payment_type |-> "none", payment_no |-> <<"", 0>>, invoices |-> <<>>,
     effect_on_passbook |-> FALSE]

----------------------------------------------------------------------------
(* payment_service: reconciliation and status derivation *)

\* $unwind + second $match + $sum of one payment's lines for one target id
RECURSIVE LinesTotal(_, _, _)
LinesTotal(lines, key, id) ==
    IF lines = <<>> THEN 0
    ELSE (IF key \in DOMAIN Head(lines) /\ Head(lines)[key] = id
          THEN Head(lines).amount ELSE 0)
         + LinesTotal(Tail(lines), key, id)

\* $group over the payments of the collection
RECURSIVE GroupSum(_, _, _, _)
GroupSum(pays, ks, key, id) ==
    IF ks = {} THEN 0
    ELSE LET k == CHOOSE x \in ks : TRUE
         IN  LinesTotal(pays[k].invoices, key, id) + GroupSum(pays, ks \ {k}, key, id)

\* the first $match: some line of some payment targets the id
HasLine(pays, key, id) ==
    \E k \in DOMAIN pays : \E j \in 1 .. Len(pays[k].invoices) :
        key \in DOMAIN pays[k].invoices[j] /\ pays[k].invoices[j][key] = id

\* (mutation of calculate_invoice_payments_bulk: the pipeline without its second
\* $match groups every line of the matched payments)
calculate_invoice_payments_bulk_one_match(pays, invoice_ids) ==
    LET matched == {k \in DOMAIN pays : \E j \in DOMAIN pays[k].invoices :
                        /\ "invoice_id" \in DOMAIN pays[k].invoices[j]
                        /\ pays[k].invoices[j].invoice_id \in invoice_ids}
        grouped == {pays[k].invoices[j].invoice_id :
                        <<k, j>> \in {kj \in matched \X (1 .. MaxLines) :
                            /\ kj[2] \in DOMAIN pays[kj[1]].invoices
                            /\ "invoice_id" \in DOMAIN pays[kj[1]].invoices[kj[2]]}}
    IN  [i \in grouped |-> GroupSum(pays, matched, "invoice_id", i)]

calculate_invoice_payments_bulk(pays, invoice_ids) ==
    [i \in {x \in invoice_ids : HasLine(pays, "invoice_id", x)} |->
        GroupSum(pays, DOMAIN pays, "invoice_id", i)]

calculate_challan_payments_bulk(pays, challan_ids) ==
    [c \in {x \in challan_ids : HasLine(pays, "challan_id", x)} |->
        GroupSum(pays, DOMAIN pays, "challan_id", c)]

\* (mutation of calculate_single_invoice_paid: the amounts of the matching payments
\* are summed whole, the lines for other invoices with them)
calculate_single_invoice_paid_whole_payments(pays, invoice_id) ==
    LET matched == {k \in DOMAIN pays : LinesTotal(pays[k].invoices, "invoice_id",
                                                    invoice_id) # 0}
        RECURSIVE Whole(_)
        Whole(ks) ==
            IF ks = {} THEN 0
            ELSE LET k == CHOOSE x \in ks : TRUE
                     RECURSIVE Total(_)
                     Total(lines) ==
                        IF lines = <<>> THEN 0
                        ELSE Head(lines).amount + Total(Tail(lines))
                 IN  Total(pays[k].invoices) + Whole(ks \ {k})
    IN  Whole(matched)

calculate_single_invoice_paid(pays, invoice_id) ==
    LET result == calculate_invoice_payments_bulk(pays, {invoice_id})
    IN  IF invoice_id \in DOMAIN result THEN result[invoice_id] ELSE 0

calculate_single_challan_paid(pays, challan_id) ==
    LET result == calculate_challan_payments_bulk(pays, {challan_id})
    IN  IF challan_id \in DOMAIN result THEN result[challan_id] ELSE 0

\* (mutation of determine_invoice_payment_status: no rounding tolerance)
determine_invoice_payment_status_no_tolerance(total_amount, total_paid) ==
    IF total_paid >= total_amount THEN "paid"
    ELSE IF total_paid > 0 THEN "partial"
    ELSE "unpaid"

determine_invoice_payment_status(total_amount, total_paid) ==
    IF total_paid >= total_amount - Eps THEN "paid"
    ELSE IF total_paid > 0 THEN "partial"
    ELSE "unpaid"

determine_challan_payment_status(total_amount, total_paid) ==
    IF total_paid >= total_amount THEN "completed"
    ELSE IF total_paid > 0 THEN "partial"
    ELSE "none"

\* a float that is a quotient of whole numbers
Fraction(n, d) == [num |-> n, den |-> d]

\* (mutation of calculate_interest: no check of the balance)
calculate_interest_any_balance(total_amount, total_paid, due_date, interest_rate, as_of, utcnow) ==
    IF due_date = None \/ interest_rate <= 0 THEN Fraction(0, 1)
    ELSE LET now == IF as_of # None THEN as_of[1] ELSE utcnow
             overdue_days == (now - due_date[1]) \div DayParts
             balance == total_amount - total_paid
         IN  IF now <= due_date[1] THEN Fraction(0, 1)
             ELSE Fraction(balance * interest_rate * overdue_days, 365 * 100)

\* as_of defaults to the clock; whole days overdue times rate on the unpaid balance
calculate_interest(total_amount, total_paid, due_date, interest_rate, as_of, utcnow) ==
    IF due_date = None \/ interest_rate <= 0 THEN Fraction(0, 1)
    ELSE LET now == IF as_of # None THEN as_of[1] ELSE utcnow
             overdue_days == (now - due_date[1]) \div DayParts
             balance == total_amount - total_paid
         IN  IF now <= due_date[1] THEN Fraction(0, 1)
             ELSE IF balance <= 0 THEN Fraction(0, 1)
             ELSE Fraction(balance * interest_rate * overdue_days, 365 * 100)

\* the in-memory copies of the invoices with total_paid, outstanding and
\* interest_amount added; an empty list comes back as it is
enrich_invoices_with_payments(pays, invoices, utcnow) ==
    LET paid_map == calculate_invoice_payments_bulk(pays, DOMAIN invoices)
        total_paid(i) == IF i \in DOMAIN paid_map THEN paid_map[i] ELSE 0
    IN  [i \in DOMAIN invoices |->
            [invoices[i] EXCEPT
                !.total_paid = total_paid(i),
                !.outstanding = invoices[i].total_amount - total_paid(i),
                !.interest_amount =
                    Some(calculate_interest(invoices[i].total_amount, total_paid(i),
                                            invoices[i].due_date,
                                            invoices[i].interest_rate,
                                            Some(utcnow), utcnow))]]

\* no payment_service function has been called yet
NoCall == [fn |-> "none", args |-> <<>>, result |-> <<>>]

----------------------------------------------------------------------------
(* Request slots *)

IdleProc ==
    [pc |-> "idle", op |-> "none", resp |-> "none",
     selected |-> <<>>, effect |-> FALSE, payment_id |-> 0,
     payment_no |-> <<"", 0>>, invoice_details |-> <<>>, idx |-> 0,
     doc |-> NoDoc, total_paid |-> 0, payment |-> NoPayment,
     target |-> "", pre |-> <<>>, undo |-> <<>>, retry_of |-> 0, total_amount |-> 0,
     form |-> <<>>]

\* the allocation lists a request can carry: any of the listed targets, each at
\* most once and in the order of the form, with any amount
Ascending(S) ==
    CHOOSE s \in [1 .. Cardinality(S) -> S] : \A i, j \in DOMAIN s : i < j => s[i] < s[j]

Selections(order, amounts) ==
    UNION {LET pos == Ascending(S)
           IN  {[j \in DOMAIN pos |-> [invoice_id |-> order[pos[j]], amount |-> amt[j]]] :
                    amt \in [DOMAIN pos -> amounts]} :
           S \in SUBSET DOMAIN order}

\* creations in flight that have not inserted their payment yet
Pending == Cardinality({q \in Procs : proc[q].pc \in {"resolve", "insert"}})

\* the value a reader takes for total_paid: the field, or paid_amount (0.0) before
\* the first recompute has set it
StoredPaid(doc) == IF doc.paid_fields THEN doc.total_paid ELSE 0

\* history for the create/delete round trip: stored and ledger value of every invoice
Snapshot ==
    [i \in InvoiceIds |->
        [stored |-> StoredPaid(sales_invoices[i]),
         ledger |-> calculate_single_invoice_paid(payments, i)]]

\* a slot that runs no transfer operation
IdleTask ==
    [pc |-> "idle", op |-> "none", raised |-> "none",
     transfer_data |-> [source_challan_id |-> "", recipients |-> <<>>],
     source_challan |-> <<>>, total_boxes_to_transfer |-> 0,
     total_meters_to_transfer |-> 0, transfer_no |-> <<"", 0>>,
     challan_no |-> <<"", 0>>, updated_recipients |-> <<>>, idx |-> 0,
     transfer_id |-> 0, transfer |-> <<>>, pre |-> <<>>]

\* the most generate_sequence_number calls of a behaviour
MaxIssued == 4

\* the prefixes sequence numbers are asked for (one company)
Prefixes == {"REC", "PAY"}

\* a slot that runs no generate_sequence_number call: result is the value the last
\* call returned, path the way the server served its find_one_and_update
IdleNumbering ==
    [pc |-> "idle", prefix |-> "", result |-> None, raised |-> "none", path |-> ""]

\* the purchased challans hold their stock, nothing has been transferred, and no
\* sequence number has been asked for
InitInventory ==
    /\ challan_stock = [c \in ChallanIds |-> NewStock(MaxBoxes, MaxMeters, FALSE, None)]
    /\ inventory_transfers = <<>>
    /\ minted = 0
    /\ task = [p \in Procs |-> IdleTask]
    /\ counters = [prefix \in Prefixes |-> None]
    /\ numbering = [p \in Procs |-> IdleNumbering]
    /\ issued = <<>>

Init ==
    /\ sales_invoices = [i \in InvoiceIds |-> NewInvoice]
    /\ purchase_challans = [c \in ChallanIds |-> NewChallan]
    /\ payments = <<>>
    /\ bank_transactions = {}
    /\ inserted = 0
    /\ proc = [p \in Procs |-> IdleProc]
    /\ orphaned = {}
    /\ call = NoCall
    /\ InitInventory

----------------------------------------------------------------------------
(* Steps shared by the handlers *)

\* the handler returns: the slot is free again and keeps the request and its response
Done(r, resp) ==
    [r EXCEPT !.pc = "idle", !.resp = resp, !.idx = 0, !.total_paid = 0,
              !.doc = IF r.op \in {"delete_invoice", "delete_challan"} THEN @ ELSE NoDoc]

\* after the recompute loop of a creation: the passbook entry, or the redirect
AfterLoop(r) ==
    IF r.effect THEN [r EXCEPT !.pc = "passbook", !.idx = 0] ELSE Done(r, "ok")

\* next iteration of `for inv_data in selected_invoices` after the insert
LoopNext(r) ==
    IF r.idx < Len(r.selected) THEN [r EXCEPT !.pc = "find", !.idx = @ + 1]
    ELSE AfterLoop(r)

\* next iteration of `for inv in payment.get("invoices", [])` of delete_payment
DeleteLoopNext(r) ==
    IF r.idx < Len(r.payment.invoices) THEN [r EXCEPT !.pc = "sum", !.idx = @ + 1]
    ELSE Done(r, "ok")

\* (mutation of SetPaidFields: the $set leaves payment_status out)
SetPaidFields_StaleStatus(doc, total_paid, outstanding, payment_status) ==
    IF doc.present
    THEN [doc EXCEPT !.paid_fields = TRUE, !.total_paid = total_paid,
                     !.outstanding = outstanding]
    ELSE doc

\* (mutation of SetPaidFields: the $set leaves outstanding out)
SetPaidFields_NoOutstanding(doc, total_paid, outstanding, payment_status) ==
    IF doc.present
    THEN [doc EXCEPT !.paid_fields = TRUE, !.total_paid = total_paid,
                     !.payment_status = payment_status]
    ELSE doc

\* (mutation of SetPaidFields: the $set stores an interest amount as well)
SetPaidFields_WithInterest(doc, total_paid, outstanding, payment_status) ==
    IF doc.present
    THEN [doc EXCEPT !.paid_fields = TRUE, !.total_paid = total_paid,
                     !.outstanding = outstanding, !.payment_status = payment_status,
                     !.interest_amount =
                        Some(calculate_interest(doc.total_amount, total_paid,
                                                doc.due_date, doc.interest_rate,
                                                None, MaxTime))]
    ELSE doc

\* update_one({"_id": id}, {"$set": {total_paid, outstanding, payment_status}}):
\* one write of the three fields; no document with that id, no change
SetPaidFields(doc, total_paid, outstanding, payment_status) ==
    IF doc.present
    THEN [doc EXCEPT !.paid_fields = TRUE, !.total_paid = total_paid,
                     !.outstanding = outstanding, !.payment_status = payment_status]
    ELSE doc

\* the request re-issues the creation this slot was running when the process ended
\* after the insert and before the recompute loop had finished
IsRetry(r, op, sel, eff) ==
    /\ r.op = op /\ r.resp = "crash"
    /\ \E o \in orphaned : o.payment = r.payment_id
    /\ r.selected = sel /\ r.effect = eff

----------------------------------------------------------------------------
(* POST /payments/sales-receipt/create *)

\* count_documents and payment_no
create_sales_receipt(p, sel, eff) ==
    /\ proc[p].pc = "idle"
    /\ inserted + Pending < MaxPayments
    /\ proc' = [proc EXCEPT ![p] =
            [IdleProc EXCEPT
                !.pc = IF sel = <<>> THEN "insert" ELSE "resolve",
                !.op = "create_sales_receipt", !.selected = sel, !.effect = eff,
                !.payment_no = <<"REC", Cardinality(DOMAIN payments) + 1>>,
                !.idx = 1, !.pre = Snapshot,
                !.retry_of = IF IsRetry(proc[p], "create_sales_receipt", sel, eff)
                             THEN proc[p].payment_id ELSE 0]]
    /\ UNCHANGED <<sales_invoices, purchase_challans, payments, bank_transactions,
                   inserted, orphaned, call, inventory, sequences>>

\* one find_one of the first loop: a line is kept only if its invoice exists
sales_receipt_resolve(p) ==
    LET r == proc[p]
        inv_data == r.selected[r.idx]
        invoice == sales_invoices[inv_data.invoice_id]
        details == IF invoice.present
                   THEN Append(r.invoice_details,
                               [invoice_id |-> inv_data.invoice_id,
                                amount |-> inv_data.amount])
                   ELSE r.invoice_details
    IN  /\ r.op = "create_sales_receipt" /\ r.pc = "resolve"
        /\ proc' = [proc EXCEPT ![p] =
                [r EXCEPT !.invoice_details = details,
                          !.idx = IF r.idx < Len(r.selected) THEN @ + 1 ELSE 1,
                          !.pc = IF r.idx < Len(r.selected) THEN "resolve" ELSE "insert"]]
        /\ UNCHANGED <<sales_invoices, purchase_challans, payments, bank_transactions,
                       inserted, orphaned, call, inventory, sequences>>

\* (mutation of sales_receipt_insert: the number is taken from the count at the
\* moment of the insert, in one step with it)
sales_receipt_insert_numbered_at_insert(p) ==
    LET r == proc[p]
        id == inserted + 1
        payment_data == [payment_type |-> "receipt",
                         payment_no |-> <<"REC", Cardinality(DOMAIN payments) + 1>>,
                         invoices |-> r.invoice_details,
                         effect_on_passbook |-> r.effect]
        r1 == [r EXCEPT !.payment_id = id, !.idx = 1]
    IN  /\ r.op = "create_sales_receipt" /\ r.pc = "insert"
        /\ payments' = payments @@ (id :> payment_data)
        /\ inserted' = id
        /\ proc' = [proc EXCEPT ![p] =
                IF r.selected = <<>> THEN AfterLoop(r1) ELSE [r1 EXCEPT !.pc = "find"]]
        /\ UNCHANGED <<sales_invoices, purchase_challans, bank_transactions,
                       orphaned, call, inventory, sequences>>

\* payments_collection.insert_one(payment_data)
sales_receipt_insert(p) ==
    LET r == proc[p]
        id == inserted + 1
        payment_data == [payment_type |-> "receipt", payment_no |-> r.payment_no,
                         invoices |-> r.invoice_details,
                         effect_on_passbook |-> r.effect]
        r1 == [r EXCEPT !.payment_id = id, !.idx = 1]
    IN  /\ r.op = "create_sales_receipt" /\ r.pc = "insert"
        /\ payments' = payments @@ (id :> payment_data)
        /\ inserted' = id
        /\ proc' = [proc EXCEPT ![p] =
                IF r.selected = <<>> THEN AfterLoop(r1) ELSE [r1 EXCEPT !.pc = "find"]]
        /\ UNCHANGED <<sales_invoices, purchase_challans, bank_transactions,
                       orphaned, call, inventory, sequences>>

\* second loop, invoices_collection.find_one
sales_receipt_find(p) ==
    LET r == proc[p]
        invoice == sales_invoices[r.selected[r.idx].invoice_id]
    IN  /\ r.op = "create_sales_receipt" /\ r.pc = "find"
        /\ proc' = [proc EXCEPT ![p] =
                IF invoice.present THEN [r EXCEPT !.doc = invoice, !.pc = "sum"]
                ELSE LoopNext(r)]
        /\ UNCHANGED <<sales_invoices, purchase_challans, payments, bank_transactions,
                       inserted, orphaned, call, inventory, sequences>>

\* (mutation of sales_receipt_sum: the stored total_paid plus the new amount instead
\* of the sum over the ledger)
sales_receipt_sum_incremental(p) ==
    LET r == proc[p]
    IN  /\ r.op = "create_sales_receipt" /\ r.pc = "sum"
        /\ proc' = [proc EXCEPT ![p] =
                [r EXCEPT !.total_paid = StoredPaid(r.doc) + r.selected[r.idx].amount,
                          !.pc = "write"]]
        /\ UNCHANGED <<sales_invoices, purchase_challans, payments, bank_transactions,
                       inserted, orphaned, call, inventory, sequences>>

\* second loop, calculate_single_invoice_paid
sales_receipt_sum(p) ==
    LET r == proc[p]
        invoice_id == r.selected[r.idx].invoice_id
    IN  /\ r.op = "create_sales_receipt" /\ r.pc = "sum"
        /\ proc' = [proc EXCEPT ![p] =
                [r EXCEPT !.total_paid = calculate_single_invoice_paid(payments, invoice_id),
                          !.pc = "write"]]
        /\ UNCHANGED <<sales_invoices, purchase_challans, payments, bank_transactions,
                       inserted, orphaned, call, inventory, sequences>>

\* second loop, invoices_collection.update_one
sales_receipt_write(p) ==
    LET r == proc[p]
        invoice_id == r.selected[r.idx].invoice_id
        outstanding == r.doc.total_amount - r.total_paid
        payment_status == determine_invoice_payment_status(r.doc.total_amount, r.total_paid)
    IN  /\ r.op = "create_sales_receipt" /\ r.pc = "write"
        /\ sales_invoices' = [sales_invoices EXCEPT ![invoice_id] =
                SetPaidFields(@, r.total_paid, outstanding, payment_status)]
        /\ proc' = [proc EXCEPT ![p] = LoopNext(r)]
        /\ UNCHANGED <<purchase_challans, payments, bank_transactions, inserted,
                       orphaned, call, inventory, sequences>>

\* bank_accounts_collection.find_one by bank_name, and when the account is there
\* bank_transactions_collection.insert_one, tagged with the payment's id
sales_receipt_passbook(p) ==
    LET r == proc[p]
    IN  /\ r.op = "create_sales_receipt" /\ r.pc = "passbook"
        /\ \E bank \in BOOLEAN :
                bank_transactions' =
                    IF bank
                    THEN bank_transactions \cup
                            {[reference_type |-> "payment_receipt",
                              reference_id |-> r.payment_id]}
                    ELSE bank_transactions
        /\ proc' = [proc EXCEPT ![p] = Done(r, "ok")]
        /\ UNCHANGED <<sales_invoices, purchase_challans, payments, inserted,
                       orphaned, call, inventory, sequences>>

----------------------------------------------------------------------------
(* POST /payments/{payment_id}/delete *)

\* payments_collection.find_one; 404 when the payment is not there
delete_payment(p, payment_id) ==
    LET r == proc[p]
        found == payment_id \in DOMAIN payments
        payment == IF found THEN payments[payment_id] ELSE NoPayment
        created == /\ r.op = "create_sales_receipt" /\ r.resp = "ok"
                   /\ r.payment_id = payment_id
        r1 == [IdleProc EXCEPT
                !.op = "delete_payment", !.payment_id = payment_id,
                !.payment = payment,
                !.undo = IF created THEN r.pre ELSE <<>>]
    IN  /\ r.pc = "idle"
        /\ proc' = [proc EXCEPT ![p] =
                IF ~found THEN Done(r1, "404")
                ELSE [r1 EXCEPT !.pc = IF payment.effect_on_passbook
                                       THEN "delete_passbook" ELSE "delete_one"]]
        /\ UNCHANGED <<sales_invoices, purchase_challans, payments, bank_transactions,
                       inserted, orphaned, call, inventory, sequences>>

\* bank_transactions_collection.delete_one by reference
delete_payment_passbook(p) ==
    LET r == proc[p]
        ref_type == IF r.payment.payment_type = "receipt"
                    THEN "payment_receipt" ELSE "payment_made"
    IN  /\ r.op = "delete_payment" /\ r.pc = "delete_passbook"
        /\ bank_transactions' = bank_transactions \
                {[reference_type |-> ref_type, reference_id |-> r.payment_id]}
        /\ proc' = [proc EXCEPT ![p] = [r EXCEPT !.pc = "delete_one"]]
        /\ UNCHANGED <<sales_invoices, purchase_challans, payments, inserted,
                       orphaned, call, inventory, sequences>>

\* payments_collection.delete_one; the loop runs only if a document was deleted
delete_payment_delete_one(p) ==
    LET r == proc[p]
        deleted_count == IF r.payment_id \in DOMAIN payments THEN 1 ELSE 0
    IN  /\ r.op = "delete_payment" /\ r.pc = "delete_one"
        /\ payments' = [k \in DOMAIN payments \ {r.payment_id} |-> payments[k]]
        /\ proc' = [proc EXCEPT ![p] =
                IF deleted_count > 0 THEN DeleteLoopNext([r EXCEPT !.idx = 0])
                ELSE Done(r, "ok")]
        /\ UNCHANGED <<sales_invoices, purchase_challans, bank_transactions,
                       inserted, orphaned, call, inventory, sequences>>

\* (mutation of delete_payment_sum: the sum still counts the deleted payment, as if
\* it were taken before delete_one)
delete_payment_sum_before_delete(p) ==
    LET r == proc[p]
        inv == r.payment.invoices[r.idx]
        key == IF "invoice_id" \in DOMAIN inv THEN "invoice_id" ELSE "challan_id"
    IN  /\ r.op = "delete_payment" /\ r.pc = "sum"
        /\ proc' = [proc EXCEPT ![p] =
                [r EXCEPT !.pc = "find", !.total_paid =
                    GroupSum(payments, DOMAIN payments, key, inv[key])
                    + LinesTotal(r.payment.invoices, key, inv[key])]]
        /\ UNCHANGED <<sales_invoices, purchase_challans, payments, bank_transactions,
                       inserted, orphaned, call, inventory, sequences>>

\* calculate_single_invoice_paid / calculate_single_challan_paid of the line's target
delete_payment_sum(p) ==
    LET r == proc[p]
        inv == r.payment.invoices[r.idx]
    IN  /\ r.op = "delete_payment" /\ r.pc = "sum"
        /\ proc' = [proc EXCEPT ![p] =
                IF "invoice_id" \in DOMAIN inv
                THEN [r EXCEPT !.pc = "find", !.total_paid =
                            calculate_single_invoice_paid(payments, inv.invoice_id)]
                ELSE IF "challan_id" \in DOMAIN inv
                THEN [r EXCEPT !.pc = "find", !.total_paid =
                            calculate_single_challan_paid(payments, inv.challan_id)]
                ELSE DeleteLoopNext(r)]
        /\ UNCHANGED <<sales_invoices, purchase_challans, payments, bank_transactions,
                       inserted, orphaned, call, inventory, sequences>>

\* find_one of the line's target
delete_payment_find(p) ==
    LET r == proc[p]
        inv == r.payment.invoices[r.idx]
        doc == IF "invoice_id" \in DOMAIN inv THEN sales_invoices[inv.invoice_id]
               ELSE purchase_challans[inv.challan_id]
    IN  /\ r.op = "delete_payment" /\ r.pc = "find"
        /\ proc' = [proc EXCEPT ![p] =
                IF doc.present THEN [r EXCEPT !.doc = doc, !.pc = "write"]
                ELSE DeleteLoopNext(r)]
        /\ UNCHANGED <<sales_invoices, purchase_challans, payments, bank_transactions,
                       inserted, orphaned, call, inventory, sequences>>

\* update_one of the line's target
delete_payment_write(p) ==
    LET r == proc[p]
        inv == r.payment.invoices[r.idx]
        outstanding == r.doc.total_amount - r.total_paid
    IN  /\ r.op = "delete_payment" /\ r.pc = "write"
        /\ IF "invoice_id" \in DOMAIN inv
           THEN /\ sales_invoices' = [sales_invoices EXCEPT ![inv.invoice_id] =
                        SetPaidFields(@, r.total_paid, outstanding,
                            determine_invoice_payment_status(r.doc.total_amount,
                                                             r.total_paid))]
                /\ UNCHANGED purchase_challans
           ELSE /\ purchase_challans' = [purchase_challans EXCEPT ![inv.challan_id] =
                        SetPaidFields(@, r.total_paid, outstanding,
                            determine_challan_payment_status(r.doc.total_amount,
                                                             r.total_paid))]
                /\ UNCHANGED sales_invoices
        /\ proc' = [proc EXCEPT ![p] = DeleteLoopNext(r)]
        /\ UNCHANGED <<payments, bank_transactions, inserted, orphaned,
                       call, inventory, sequences>>

----------------------------------------------------------------------------
(* POST /payments/receipt/create: a payment to a supplier, allocated to challans *)

\* the checks of the form, count_documents and payment_no
create_receipt(p, sel, eff) ==
    LET r1 == [IdleProc EXCEPT
                !.op = "create_receipt", !.selected = sel, !.effect = eff,
                !.retry_of = IF IsRetry(proc[p], "create_receipt", sel, eff)
                             THEN proc[p].payment_id ELSE 0]
    IN  /\ proc[p].pc = "idle"
        /\ inserted + Pending < MaxPayments
        /\ proc' = [proc EXCEPT ![p] =
                IF sel = <<>> THEN Done(r1, "400")
                ELSE [r1 EXCEPT !.pc = "resolve", !.idx = 1,
                        !.payment_no = <<"PAY", Cardinality(DOMAIN payments) + 1>>]]
        /\ UNCHANGED <<sales_invoices, purchase_challans, payments, bank_transactions,
                       inserted, orphaned, call, inventory, sequences>>

\* one find_one of the first loop: a line is kept only if its challan exists
receipt_resolve(p) ==
    LET r == proc[p]
        inv_data == r.selected[r.idx]
        challan == purchase_challans[inv_data.invoice_id]
        details == IF challan.present
                   THEN Append(r.invoice_details,
                               [challan_id |-> inv_data.invoice_id,
                                amount |-> inv_data.amount])
                   ELSE r.invoice_details
    IN  /\ r.op = "create_receipt" /\ r.pc = "resolve"
        /\ proc' = [proc EXCEPT ![p] =
                [r EXCEPT !.invoice_details = details,
                          !.idx = IF r.idx < Len(r.selected) THEN @ + 1 ELSE 1,
                          !.pc = IF r.idx < Len(r.selected) THEN "resolve" ELSE "insert"]]
        /\ UNCHANGED <<sales_invoices, purchase_challans, payments, bank_transactions,
                       inserted, orphaned, call, inventory, sequences>>

\* payments_collection.insert_one(payment_data)
receipt_insert(p) ==
    LET r == proc[p]
        id == inserted + 1
        payment_data == [payment_type |-> "cheque", payment_no |-> r.payment_no,
                         invoices |-> r.invoice_details,
                         effect_on_passbook |-> r.effect]
    IN  /\ r.op = "create_receipt" /\ r.pc = "insert"
        /\ payments' = payments @@ (id :> payment_data)
        /\ inserted' = id
        /\ proc' = [proc EXCEPT ![p] = [r EXCEPT !.payment_id = id, !.idx = 1, !.pc = "find"]]
        /\ UNCHANGED <<sales_invoices, purchase_challans, bank_transactions,
                       orphaned, call, inventory, sequences>>

\* second loop, challans_collection.find_one
receipt_find(p) ==
    LET r == proc[p]
        challan == purchase_challans[r.selected[r.idx].invoice_id]
    IN  /\ r.op = "create_receipt" /\ r.pc = "find"
        /\ proc' = [proc EXCEPT ![p] =
                IF challan.present THEN [r EXCEPT !.doc = challan, !.pc = "sum"]
                ELSE LoopNext(r)]
        /\ UNCHANGED <<sales_invoices, purchase_challans, payments, bank_transactions,
                       inserted, orphaned, call, inventory, sequences>>

\* second loop, calculate_single_challan_paid
receipt_sum(p) ==
    LET r == proc[p]
        challan_id == r.selected[r.idx].invoice_id
    IN  /\ r.op = "create_receipt" /\ r.pc = "sum"
        /\ proc' = [proc EXCEPT ![p] =
                [r EXCEPT !.total_paid = calculate_single_challan_paid(payments, challan_id),
                          !.pc = "write"]]
        /\ UNCHANGED <<sales_invoices, purchase_challans, payments, bank_transactions,
                       inserted, orphaned, call, inventory, sequences>>

\* second loop, challans_collection.update_one
receipt_write(p) ==
    LET r == proc[p]
        challan_id == r.selected[r.idx].invoice_id
        final_rs == r.doc.total_amount
        payment_status == determine_challan_payment_status(final_rs, r.total_paid)
    IN  /\ r.op = "create_receipt" /\ r.pc = "write"
        /\ purchase_challans' = [purchase_challans EXCEPT ![challan_id] =
                SetPaidFields(@, r.total_paid, final_rs - r.total_paid, payment_status)]
        /\ proc' = [proc EXCEPT ![p] = LoopNext(r)]
        /\ UNCHANGED <<sales_invoices, payments, bank_transactions, inserted,
                       orphaned, call, inventory, sequences>>

\* bank_accounts_collection.find_one by bank_name, and when the account is there
\* bank_transactions_collection.insert_one, tagged with the payment's id
receipt_passbook(p) ==
    LET r == proc[p]
    IN  /\ r.op = "create_receipt" /\ r.pc = "passbook"
        /\ \E bank \in BOOLEAN :
                bank_transactions' =
                    IF bank
                    THEN bank_transactions \cup
                            {[reference_type |-> "payment_made",
                              reference_id |-> r.payment_id]}
                    ELSE bank_transactions
        /\ proc' = [proc EXCEPT ![p] = Done(r, "ok")]
        /\ UNCHANGED <<sales_invoices, purchase_challans, payments, inserted,
                       orphaned, call, inventory, sequences>>

----------------------------------------------------------------------------
(* DELETE /invoices/{invoice_id} *)

\* find_one, 404 when absent, 400 when payment_status is paid or partial
delete_invoice(p, invoice_id) ==
    LET invoice == sales_invoices[invoice_id]
        r1 == [IdleProc EXCEPT !.op = "delete_invoice", !.target = invoice_id,
                               !.doc = invoice]
    IN  /\ proc[p].pc = "idle"
        /\ proc' = [proc EXCEPT ![p] =
                IF ~invoice.present THEN Done(r1, "404")
                ELSE IF invoice.payment_status \in {"paid", "partial"} THEN Done(r1, "400")
                ELSE [r1 EXCEPT !.pc = "delete_one"]]
        /\ UNCHANGED <<sales_invoices, purchase_challans, payments, bank_transactions,
                       inserted, orphaned, call, inventory, sequences>>

\* invoices_collection.delete_one, 404 when nothing was deleted
delete_invoice_delete_one(p) ==
    LET r == proc[p]
        deleted_count == IF sales_invoices[r.target].present THEN 1 ELSE 0
    IN  /\ r.op = "delete_invoice" /\ r.pc = "delete_one"
        /\ sales_invoices' = [sales_invoices EXCEPT ![r.target] = NoDoc]
        /\ proc' = [proc EXCEPT ![p] = Done(r, IF deleted_count = 0 THEN "404" ELSE "ok")]
        /\ UNCHANGED <<purchase_challans, payments, bank_transactions, inserted,
                       orphaned, call, inventory, sequences>>

----------------------------------------------------------------------------
(* POST /payments/{payment_id}/edit *)

\* the fields of the edit form: amount stands for the numbers (amount, disbursement,
\* notes_rs, kasar, interest; float(... or 0) takes any number), bank_name for the
\* texts (bank_name, cheque_no, rr)
BankNames == {"b1", "b2"}
EditForms == [amount : Amounts, bank_name : BankNames]

\* edit_payment, up to the await of update_one
edit_payment(p, payment_id, form) ==
    /\ proc[p].pc = "idle"
    /\ proc' = [proc EXCEPT ![p] =
            [IdleProc EXCEPT !.op = "edit_payment", !.pc = "update_one",
                             !.payment_id = payment_id, !.form = form]]
    /\ UNCHANGED <<sales_invoices, purchase_challans, payments, bank_transactions,
                   inserted, orphaned, call, inventory, sequences>>

\* (mutation of edit_payment_update_one: the $set also rewrites the amount of
\* every allocation line to the amount of the form)
edit_payment_update_one_rewriting_lines(p) ==
    LET r == proc[p]
        matched_count == IF r.payment_id \in DOMAIN payments THEN 1 ELSE 0
    IN  /\ r.op = "edit_payment" /\ r.pc = "update_one"
        /\ payments' =
                IF matched_count = 0 THEN payments
                ELSE [payments EXCEPT ![r.payment_id] =
                        [r.form @@ @ EXCEPT !.invoices =
                            [j \in DOMAIN @ |-> [@[j] EXCEPT !.amount = r.form.amount]]]]
        /\ proc' = [proc EXCEPT ![p] = Done(r, IF matched_count = 0 THEN "404" ELSE "ok")]
        /\ UNCHANGED <<sales_invoices, purchase_challans, bank_transactions,
                       inserted, orphaned, call, inventory, sequences>>

\* update_one({_id, company_id}, {"$set": {amount, ..., bank_name, ...}}): the
\* fields of the form are set on the payment document, added where the document
\* did not have them; 404 when no document matched
edit_payment_update_one(p) ==
    LET r == proc[p]
        matched_count == IF r.payment_id \in DOMAIN payments THEN 1 ELSE 0
    IN  /\ r.op = "edit_payment" /\ r.pc = "update_one"
        /\ payments' =
                IF matched_count = 0 THEN payments
                ELSE [payments EXCEPT ![r.payment_id] = r.form @@ @]
        /\ proc' = [proc EXCEPT ![p] = Done(r, IF matched_count = 0 THEN "404" ELSE "ok")]
        /\ UNCHANGED <<sales_invoices, purchase_challans, bank_transactions,
                       inserted, orphaned, call, inventory, sequences>>

----------------------------------------------------------------------------
(* POST /invoices/{invoice_id}/edit *)

\* the totals an edit can compute from its items: round(subtotal + gst_total)
EditedTotals == {n * Rupee : n \in 0 .. MaxRupees}

\* update_invoice, up to the await of find_one on sales_invoices: 404 when the
\* invoice is not there. total_amount is what the handler will compute from the
\* items of the form
update_invoice(p, invoice_id, total_amount) ==
    LET invoice == sales_invoices[invoice_id]
        r1 == [IdleProc EXCEPT !.op = "update_invoice", !.target = invoice_id,
                               !.total_amount = total_amount]
    IN  /\ proc[p].pc = "idle"
        /\ proc' = [proc EXCEPT ![p] =
                IF ~invoice.present THEN Done(r1, "404")
                ELSE [r1 EXCEPT !.pc = "customer"]]
        /\ UNCHANGED <<sales_invoices, purchase_challans, payments, bank_transactions,
                       inserted, orphaned, call, inventory, sequences>>

\* parties_collection.find_one: 404 when the customer is not there
update_invoice_customer(p) ==
    LET r == proc[p] IN
    /\ r.op = "update_invoice" /\ r.pc = "customer"
    /\ \E customer \in BOOLEAN :
            proc' = [proc EXCEPT ![p] =
                IF customer THEN [r EXCEPT !.pc = "update_one"] ELSE Done(r, "404")]
    /\ UNCHANGED <<sales_invoices, purchase_challans, payments, bank_transactions,
                   inserted, orphaned, call, inventory, sequences>>

\* update_one({"_id": id}, {"$set": update_data}): of the fields of the model the
\* $set carries total_amount only (balance_amount, computed from paid_amount, and
\* the descriptive fields are read by no handler of the model); total_paid,
\* outstanding and payment_status are not in it. No document, no change
update_invoice_update_one(p) ==
    LET r == proc[p]
        doc == sales_invoices[r.target]
    IN  /\ r.op = "update_invoice" /\ r.pc = "update_one"
        /\ sales_invoices' = [sales_invoices EXCEPT ![r.target] =
                IF doc.present THEN [doc EXCEPT !.total_amount = r.total_amount]
                ELSE doc]
        /\ proc' = [proc EXCEPT ![p] = Done(r, "ok")]
        /\ UNCHANGED <<purchase_challans, payments, bank_transactions, inserted,
                       orphaned, call, inventory, sequences>>

----------------------------------------------------------------------------
(* POST /purchase-invoices/{challan_id}/delete *)

\* challans_collection.delete_one, 404 when nothing was deleted
delete_challan(p, challan_id) ==
    LET deleted_count == IF purchase_challans[challan_id].present THEN 1 ELSE 0
        \* doc: history, the document as it was when the request arrived
        r1 == [IdleProc EXCEPT !.op = "delete_challan", !.target = challan_id,
                               !.doc = purchase_challans[challan_id]]
    IN  /\ proc[p].pc = "idle"
        /\ purchase_challans' = [purchase_challans EXCEPT ![challan_id] = NoDoc]
        /\ challan_stock' = [c \in DOMAIN challan_stock \ {challan_id} |-> challan_stock[c]]
        /\ proc' = [proc EXCEPT ![p] = Done(r1, IF deleted_count = 0 THEN "404" ELSE "ok")]
        /\ UNCHANGED <<sales_invoices, payments, bank_transactions, inserted,
                       orphaned, call, inventory_transfers, minted, task, sequences>>

----------------------------------------------------------------------------
(* The process ends while a handler is between two awaits *)

crash(p) ==
    LET r == proc[p]
        mid_recompute == /\ r.op \in {"create_sales_receipt", "create_receipt"}
                         /\ r.pc \in {"find", "sum", "write"}
        key == IF r.op = "create_sales_receipt" THEN "invoice_id" ELSE "challan_id"
        \* the lines of the inserted payment whose target the loop has not updated yet
        left == {j \in r.idx .. Len(r.selected) :
                    /\ r.payment_id \in DOMAIN payments
                    /\ LinesTotal(payments[r.payment_id].invoices, key,
                                  r.selected[j].invoice_id) # 0}
    IN  /\ r.pc # "idle"
        /\ proc' = [proc EXCEPT ![p] = Done(r, "crash")]
        /\ orphaned' = IF mid_recompute
                       THEN orphaned \cup {[payment |-> r.payment_id,
                                            target |-> r.selected[j].invoice_id] : j \in left}
                       ELSE orphaned
        /\ UNCHANGED <<sales_invoices, purchase_challans, payments, bank_transactions,
                       inserted, call, inventory, sequences>>

----------------------------------------------------------------------------
(* InventoryService: transfers of stock from a source challan to recipients *)

\* the payment side of the store
ledger_only == <<sales_invoices, purchase_challans, payments, bank_transactions,
                 inserted, proc, orphaned, call>>

\* what a transfer operation leaves alone: the payment side of the store and the
\* sequence counters
ledger == <<ledger_only, sequences>>

\* sum(r[field] for r in recipients)
RECURSIVE SumOver(_, _)
SumOver(recipients, field) ==
    IF recipients = <<>> THEN 0
    ELSE Head(recipients)[field] + SumOver(Tail(recipients), field)

\* the operation returns (raised = "none") or raises; the slot keeps its locals
EndTask(t, raised) == [t EXCEPT !.pc = "idle", !.raised = raised]

\* recipient challans that the creations in flight have still to insert
RecipientsInFlight ==
    LET RECURSIVE Left(_)
        Left(ps) ==
            IF ps = {} THEN 0
            ELSE LET q == CHOOSE x \in ps : TRUE
                 IN  (IF task[q].op = "create_transfer" /\ task[q].pc # "idle"
                      THEN Len(task[q].transfer_data.recipients)
                           - Len(task[q].updated_recipients)
                      ELSE 0) + Left(ps \ {q})
    IN  Left(Procs)

\* transfer records that the operations in flight have still to insert
TransfersInFlight ==
    Cardinality({q \in Procs : /\ task[q].op \in {"create_transfer", "post_create_transfer"}
                               /\ task[q].pc \notin {"idle", "update_source"}})

\* the $inc of the four counters of a challan by a number of boxes and meters moved
\* out of available into transferred (negative: moved back)
IncStock(doc, boxes, meters) ==
    [doc EXCEPT !.available_boxes = @ - boxes, !.available_meters = @ - meters,
                !.transferred_boxes = @ + boxes, !.transferred_meters = @ + meters]

\* create_transfer: find_one of the source challan and the check of the totals
\* against what the challan has available
create_transfer(p, transfer_data) ==
    LET id == transfer_data.source_challan_id
        found == id \in DOMAIN challan_stock
        source_challan == IF found THEN challan_stock[id]
                          ELSE NewStock(0, 0, FALSE, None)
        total_boxes_to_transfer == SumOver(transfer_data.recipients, "boxes")
        total_meters_to_transfer == SumOver(transfer_data.recipients, "meters")
        t == [IdleTask EXCEPT
                !.op = "create_transfer", !.transfer_data = transfer_data,
                !.source_challan = source_challan,
                !.total_boxes_to_transfer = total_boxes_to_transfer,
                !.total_meters_to_transfer = total_meters_to_transfer,
                \* pre: history, the store as it was when the call began
                !.pre = [challan_stock |-> challan_stock,
                         inventory_transfers |-> inventory_transfers]]
    IN  /\ task[p].pc = "idle"
        /\ Cardinality(DOMAIN inventory_transfers) + TransfersInFlight < MaxTransfers
        /\ minted + RecipientsInFlight + Len(transfer_data.recipients) <= MaxMinted
        /\ task' = [task EXCEPT ![p] =
                IF ~found THEN EndTask(t, "ValueError")
                ELSE IF total_boxes_to_transfer > source_challan.available_boxes
                THEN EndTask(t, "ValueError")
                ELSE IF total_meters_to_transfer > source_challan.available_meters
                THEN EndTask(t, "ValueError")
                ELSE [t EXCEPT !.pc = "count"]]
        /\ UNCHANGED <<challan_stock, inventory_transfers, minted, ledger>>

\* transfers_collection.count_documents and transfer_no
create_transfer_count(p) ==
    LET t == task[p]
    IN  /\ t.op = "create_transfer" /\ t.pc = "count"
        /\ task' = [task EXCEPT ![p] =
                [t EXCEPT !.transfer_no = <<"TR", Cardinality(DOMAIN inventory_transfers) + 1>>,
                          !.idx = 1,
                          !.pc = IF t.transfer_data.recipients = <<>>
                                 THEN "insert_transfer" ELSE "party"]]
        /\ UNCHANGED <<challan_stock, inventory_transfers, minted, ledger>>

\* loop over the recipients, parties_collection.find_one: raises when the party is
\* not there
create_transfer_party(p) ==
    LET t == task[p]
        recipient == t.transfer_data.recipients[t.idx]
    IN  /\ t.op = "create_transfer" /\ t.pc = "party"
        /\ task' = [task EXCEPT ![p] =
                IF recipient.party_id \notin parties THEN EndTask(t, "ValueError")
                ELSE [t EXCEPT !.pc = "challan_number"]]
        /\ UNCHANGED <<challan_stock, inventory_transfers, minted, ledger>>

\* loop over the recipients, _generate_challan_number: count_documents of the challans
create_transfer_challan_number(p) ==
    LET t == task[p]
    IN  /\ t.op = "create_transfer" /\ t.pc = "challan_number"
        /\ task' = [task EXCEPT ![p] =
                [t EXCEPT !.challan_no = <<"RECEIVED", Cardinality(DOMAIN challan_stock) + 1>>,
                          !.pc = "insert_challan"]]
        /\ UNCHANGED <<challan_stock, inventory_transfers, minted, ledger>>

\* loop over the recipients, challans_collection.insert_one of the recipient's challan
create_transfer_insert_challan(p) ==
    LET t == task[p]
        recipient == t.transfer_data.recipients[t.idx]
        inserted_id == MintedOrder[minted + 1]
        recipient_challan_data ==
            NewStock(recipient.boxes, recipient.meters, TRUE,
                     Some(t.transfer_data.source_challan_id))
        recipient_updated ==
            [party_id |-> recipient.party_id, boxes |-> recipient.boxes,
             meters |-> recipient.meters, created_challan_id |-> inserted_id,
             created_challan_no |-> t.challan_no]
        last == t.idx = Len(t.transfer_data.recipients)
    IN  /\ t.op = "create_transfer" /\ t.pc = "insert_challan"
        /\ challan_stock' = challan_stock @@ (inserted_id :> recipient_challan_data)
        /\ minted' = minted + 1
        /\ task' = [task EXCEPT ![p] =
                [t EXCEPT !.updated_recipients = Append(@, recipient_updated),
                          !.idx = IF last THEN 0 ELSE @ + 1,
                          !.pc = IF last THEN "insert_transfer" ELSE "party"]]
        /\ UNCHANGED <<inventory_transfers, ledger>>

\* transfers_collection.insert_one(transfer_record)
create_transfer_insert_transfer(p) ==
    LET t == task[p]
        inserted_id == Cardinality(DOMAIN inventory_transfers) + 1
        transfer_record ==
            [transfer_no |-> t.transfer_no,
             source_challan_id |-> t.transfer_data.source_challan_id,
             boxes_transferred |-> t.total_boxes_to_transfer,
             meters_transferred |-> t.total_meters_to_transfer,
             recipients |-> t.updated_recipients,
             status |-> "completed", is_reversed |-> FALSE,
             \* before: history, the source's counters when the call began; not a
             \* field of the document
             before |-> t.source_challan]
    IN  /\ t.op = "create_transfer" /\ t.pc = "insert_transfer"
        /\ inventory_transfers' = inventory_transfers @@ (inserted_id :> transfer_record)
        /\ task' = [task EXCEPT ![p] =
                [t EXCEPT !.transfer_id = inserted_id, !.pc = "update_source"]]
        /\ UNCHANGED <<challan_stock, minted, ledger>>

\* challans_collection.update_one of the source: $inc of the four counters, $set of
\* is_transfer_source; no document with that id, no change
create_transfer_update_source(p) ==
    LET t == task[p]
        id == t.transfer_data.source_challan_id
    IN  /\ t.op = "create_transfer" /\ t.pc = "update_source"
        /\ challan_stock' =
                IF id \in DOMAIN challan_stock
                THEN [challan_stock EXCEPT ![id] =
                        [IncStock(@, t.total_boxes_to_transfer, t.total_meters_to_transfer)
                            EXCEPT !.is_transfer_source = TRUE]]
                ELSE challan_stock
        /\ task' = [task EXCEPT ![p] = EndTask(t, "none")]
        /\ UNCHANGED <<inventory_transfers, minted, ledger>>

\* reverse_transfer: find_one of the transfer; raises when it is not there or is
\* reversed already (KeyError for a record that has no is_reversed field)
reverse_transfer(p, transfer_id) ==
    LET found == transfer_id \in DOMAIN inventory_transfers
        transfer == IF found THEN inventory_transfers[transfer_id] ELSE <<>>
        t == [IdleTask EXCEPT
                !.op = "reverse_transfer", !.transfer_id = transfer_id,
                !.transfer = transfer,
                !.pre = [challan_stock |-> challan_stock,
                         inventory_transfers |-> inventory_transfers]]
    IN  /\ task[p].pc = "idle"
        /\ task' = [task EXCEPT ![p] =
                IF ~found THEN EndTask(t, "ValueError")
                ELSE IF "is_reversed" \notin DOMAIN transfer THEN EndTask(t, "KeyError")
                ELSE IF transfer.is_reversed THEN EndTask(t, "ValueError")
                ELSE [t EXCEPT !.pc = "update_source"]]
        /\ UNCHANGED <<challan_stock, inventory_transfers, minted, ledger>>

\* (mutation of reverse_transfer_update_source: the $inc gives the stock back to
\* available and leaves the transferred counters as they are)
reverse_transfer_update_source_available_only(p) ==
    LET t == task[p]
        id == t.transfer.source_challan_id
    IN  /\ t.op = "reverse_transfer" /\ t.pc = "update_source"
        /\ challan_stock' =
                IF id \in DOMAIN challan_stock
                THEN [challan_stock EXCEPT ![id] =
                        [@ EXCEPT !.available_boxes = @ + t.transfer.boxes_transferred,
                                  !.available_meters = @ + t.transfer.meters_transferred]]
                ELSE challan_stock
        /\ task' = [task EXCEPT ![p] =
                [t EXCEPT !.idx = 1,
                          !.pc = IF t.transfer.recipients = <<>> THEN "mark"
                                 ELSE "delete_challan"]]
        /\ UNCHANGED <<inventory_transfers, minted, ledger>>

\* challans_collection.update_one of the source: $inc of the four counters back
reverse_transfer_update_source(p) ==
    LET t == task[p]
        id == t.transfer.source_challan_id
    IN  /\ t.op = "reverse_transfer" /\ t.pc = "update_source"
        /\ challan_stock' =
                IF id \in DOMAIN challan_stock
                THEN [challan_stock EXCEPT ![id] =
                        IncStock(@, - t.transfer.boxes_transferred,
                                 - t.transfer.meters_transferred)]
                ELSE challan_stock
        /\ task' = [task EXCEPT ![p] =
                [t EXCEPT !.idx = 1,
                          !.pc = IF t.transfer.recipients = <<>> THEN "mark"
                                 ELSE "delete_challan"]]
        /\ UNCHANGED <<inventory_transfers, minted, ledger>>

\* (mutation of reverse_transfer_delete_challan: the loop deletes the challan of the
\* first recipient only)
reverse_transfer_delete_challan_first_only(p) ==
    LET t == task[p]
        recipient == t.transfer.recipients[t.idx]
        last == t.idx = Len(t.transfer.recipients)
    IN  /\ t.op = "reverse_transfer" /\ t.pc = "delete_challan"
        /\ challan_stock' =
                IF t.idx = 1
                THEN [c \in DOMAIN challan_stock \ {recipient.created_challan_id} |->
                        challan_stock[c]]
                ELSE challan_stock
        /\ task' = [task EXCEPT ![p] =
                [t EXCEPT !.idx = IF last THEN 0 ELSE @ + 1,
                          !.pc = IF last THEN "mark" ELSE "delete_challan"]]
        /\ UNCHANGED <<inventory_transfers, minted, ledger>>

\* loop over the recipients, challans_collection.delete_one of the created challan
reverse_transfer_delete_challan(p) ==
    LET t == task[p]
        recipient == t.transfer.recipients[t.idx]
        last == t.idx = Len(t.transfer.recipients)
    IN  /\ t.op = "reverse_transfer" /\ t.pc = "delete_challan"
        /\ challan_stock' =
                [c \in DOMAIN challan_stock \ {recipient.created_challan_id} |->
                    challan_stock[c]]
        /\ task' = [task EXCEPT ![p] =
                [t EXCEPT !.idx = IF last THEN 0 ELSE @ + 1,
                          !.pc = IF last THEN "mark" ELSE "delete_challan"]]
        /\ UNCHANGED <<inventory_transfers, minted, ledger>>

\* transfers_collection.update_one: is_reversed and status "cancelled"
reverse_transfer_mark(p) ==
    LET t == task[p]
    IN  /\ t.op = "reverse_transfer" /\ t.pc = "mark"
        /\ inventory_transfers' =
                IF t.transfer_id \in DOMAIN inventory_transfers
                THEN [inventory_transfers EXCEPT ![t.transfer_id] =
                        [@ EXCEPT !.is_reversed = TRUE, !.status = "cancelled"]]
                ELSE inventory_transfers
        /\ task' = [task EXCEPT ![p] = EndTask(t, "none")]
        /\ UNCHANGED <<challan_stock, minted, ledger>>

----------------------------------------------------------------------------
(* POST /transfers/create *)

\* find_one of the source challan, 404 when absent
post_create_transfer(p, source_challan_id, recipients) ==
    LET found == source_challan_id \in DOMAIN challan_stock
        t == [IdleTask EXCEPT
                !.op = "post_create_transfer",
                !.transfer_data = [source_challan_id |-> source_challan_id,
                                   recipients |-> recipients],
                !.pre = [challan_stock |-> challan_stock,
                         inventory_transfers |-> inventory_transfers]]
    IN  /\ task[p].pc = "idle"
        /\ Cardinality(DOMAIN inventory_transfers) + TransfersInFlight < MaxTransfers
        /\ task' = [task EXCEPT ![p] =
                IF ~found THEN EndTask(t, "404")
                ELSE [t EXCEPT !.idx = 1,
                               !.pc = IF recipients = <<>> THEN "insert_transfer"
                                      ELSE "party"]]
        /\ UNCHANGED <<challan_stock, inventory_transfers, minted, ledger>>

\* the while loop over the form's recipients, parties_collection.find_one: a
\* recipient is kept only if its party exists
post_create_transfer_party(p) ==
    LET t == task[p]
        recipient == t.transfer_data.recipients[t.idx]
        last == t.idx = Len(t.transfer_data.recipients)
        kept == IF recipient.party_id \in parties
                THEN Append(t.updated_recipients,
                            [party_id |-> recipient.party_id,
                             quantity |-> recipient.boxes])
                ELSE t.updated_recipients
    IN  /\ t.op = "post_create_transfer" /\ t.pc = "party"
        /\ task' = [task EXCEPT ![p] =
                [t EXCEPT !.updated_recipients = kept,
                          !.idx = IF last THEN 0 ELSE @ + 1,
                          !.pc = IF last THEN "insert_transfer" ELSE "party"]]
        /\ UNCHANGED <<challan_stock, inventory_transfers, minted, ledger>>

\* transfers_collection.insert_one(transfer_data), and the redirect
post_create_transfer_insert(p) ==
    LET t == task[p]
        inserted_id == Cardinality(DOMAIN inventory_transfers) + 1
        transfer_data ==
            [source_challan_id |-> t.transfer_data.source_challan_id,
             quantity_transferred |-> SumOver(t.updated_recipients, "quantity"),
             recipients |-> t.updated_recipients]
    IN  /\ t.op = "post_create_transfer" /\ t.pc = "insert_transfer"
        /\ inventory_transfers' = inventory_transfers @@ (inserted_id :> transfer_data)
        /\ task' = [task EXCEPT ![p] = EndTask([t EXCEPT !.transfer_id = inserted_id], "none")]
        /\ UNCHANGED <<challan_stock, minted, ledger>>

----------------------------------------------------------------------------
(* Calls of the payment_service functions by the read paths *)

\* the caller's record of a call that has returned
Returns(fn, args, result) == [fn |-> fn, args |-> args, result |-> result]

\* what a read leaves alone: everything but the caller's record
stores == <<sales_invoices, purchase_challans, payments, bank_transactions,
            inserted, proc, orphaned, inventory, sequences>>

call_calculate_invoice_payments_bulk(invoice_ids) ==
    /\ call' = Returns("calculate_invoice_payments_bulk", <<invoice_ids>>,
            calculate_invoice_payments_bulk(payments, invoice_ids))
    /\ UNCHANGED stores

call_calculate_challan_payments_bulk(challan_ids) ==
    /\ call' = Returns("calculate_challan_payments_bulk", <<challan_ids>>,
            calculate_challan_payments_bulk(payments, challan_ids))
    /\ UNCHANGED stores

\* (mutation of call_calculate_single_invoice_paid: the call stores what it computed
\* on the invoice)
call_calculate_single_invoice_paid_storing(invoice_id) ==
    LET total_paid == calculate_single_invoice_paid(payments, invoice_id)
    IN  /\ call' = [fn |-> "calculate_single_invoice_paid", args |-> <<invoice_id>>,
                    result |-> total_paid]
        /\ sales_invoices' =
                IF invoice_id \in InvoiceIds
                THEN [sales_invoices EXCEPT ![invoice_id] =
                        SetPaidFields(@, total_paid, @.total_amount - total_paid,
                                      determine_invoice_payment_status(@.total_amount,
                                                                       total_paid))]
                ELSE sales_invoices
        /\ UNCHANGED <<purchase_challans, payments, bank_transactions,
                       inserted, proc, orphaned, inventory, sequences>>

call_calculate_single_invoice_paid(invoice_id) ==
    /\ call' = Returns("calculate_single_invoice_paid", <<invoice_id>>,
            calculate_single_invoice_paid(payments, invoice_id))
    /\ UNCHANGED stores

call_calculate_single_challan_paid(challan_id) ==
    /\ call' = Returns("calculate_single_challan_paid", <<challan_id>>,
            calculate_single_challan_paid(payments, challan_id))
    /\ UNCHANGED stores

call_determine_invoice_payment_status(total_amount, total_paid) ==
    /\ call' = Returns("determine_invoice_payment_status", <<total_amount, total_paid>>,
            determine_invoice_payment_status(total_amount, total_paid))
    /\ UNCHANGED stores

call_determine_challan_payment_status(total_amount, total_paid) ==
    /\ call' = Returns("determine_challan_payment_status", <<total_amount, total_paid>>,
            determine_challan_payment_status(total_amount, total_paid))
    /\ UNCHANGED stores

call_calculate_interest(total_amount, total_paid, due_date, interest_rate, as_of, utcnow) ==
    /\ call' = Returns("calculate_interest",
            <<total_amount, total_paid, due_date, interest_rate, as_of, utcnow>>,
            calculate_interest(total_amount, total_paid, due_date, interest_rate,
                               as_of, utcnow))
    /\ UNCHANGED stores

\* the list handed over is the documents a find() returned
call_enrich_invoices_with_payments(invoice_ids, utcnow) ==
    LET found == {i \in invoice_ids : sales_invoices[i].present}
    IN  /\ call' = Returns("enrich_invoices_with_payments", <<invoice_ids, utcnow>>,
                enrich_invoices_with_payments(payments,
                    [i \in found |-> sales_invoices[i]], utcnow))
        /\ UNCHANGED stores

----------------------------------------------------------------------------
(* Specifications *)

\* the awaits of the handlers running in slot p
Step(p) ==
    \/ sales_receipt_resolve(p)
    \/ sales_receipt_insert(p)
    \/ sales_receipt_find(p)
    \/ sales_receipt_sum(p)
    \/ sales_receipt_write(p)
    \/ receipt_resolve(p)
    \/ receipt_insert(p)
    \/ receipt_find(p)
    \/ receipt_sum(p)
    \/ receipt_write(p)
    \/ delete_payment_delete_one(p)
    \/ delete_payment_sum(p)
    \/ delete_payment_find(p)
    \/ delete_payment_write(p)
    \/ delete_invoice_delete_one(p)

\* the awaits that touch the bank passbook
PassbookStep(p) ==
    \/ sales_receipt_passbook(p)
    \/ receipt_passbook(p)
    \/ delete_payment_passbook(p)

\* the requests that can arrive in slot p; effects: the values of effect_on_passbook
Request(p, effects) ==
    \/ \E sel \in Selections(InvoiceOrder, Amounts), eff \in effects :
            create_sales_receipt(p, sel, eff)
    \/ \E sel \in Selections(ChallanOrder, Amounts), eff \in effects :
            create_receipt(p, sel, eff)
    \/ \E payment_id \in PaymentIds : delete_payment(p, payment_id)
    \/ \E invoice_id \in InvoiceIds : delete_invoice(p, invoice_id)
    \/ \E challan_id \in ChallanIds : delete_challan(p, challan_id)

\* one request at a time; the process can end at any await and be restarted
\* (payments that leave the passbook alone)
Next ==
    \/ Request("r1", {FALSE})
    \/ Step("r1")
    \/ crash("r1")

Spec == Init /\ [][Next]_vars

\* the payment mutations of the sales side, requests overlapping in every slot:
\* each await of one handler can fall between any two awaits of another
\* (receipts of positive amounts that leave the passbook alone)
ConcurrentMutation(p) ==
    \/ \E sel \in Selections(InvoiceOrder, 1 .. MaxAmt) : create_sales_receipt(p, sel, FALSE)
    \/ \E payment_id \in PaymentIds : delete_payment(p, payment_id)
    \/ sales_receipt_resolve(p)
    \/ sales_receipt_insert(p)
    \/ sales_receipt_find(p)
    \/ sales_receipt_sum(p)
    \/ sales_receipt_write(p)
    \/ delete_payment_delete_one(p)
    \/ delete_payment_sum(p)
    \/ delete_payment_find(p)
    \/ delete_payment_write(p)

NextConc == \E p \in Procs : ConcurrentMutation(p)

SpecConc == Init /\ [][NextConc]_vars

\* sales receipts and invoice deletions, requests overlapping in every slot
\* (receipts of positive amounts that leave the passbook alone)
InvoiceRace(p) ==
    \/ \E sel \in Selections(InvoiceOrder, 1 .. MaxAmt) : create_sales_receipt(p, sel, FALSE)
    \/ \E invoice_id \in InvoiceIds : delete_invoice(p, invoice_id)
    \/ sales_receipt_resolve(p)
    \/ sales_receipt_insert(p)
    \/ sales_receipt_find(p)
    \/ sales_receipt_sum(p)
    \/ sales_receipt_write(p)
    \/ delete_invoice_delete_one(p)

NextRace == \E p \in Procs : InvoiceRace(p)

SpecRace == Init /\ [][NextRace]_vars

\* the ledger as one completed sales receipt of 1 on inv1 leaves it: the payment
\* REC0001 stored, inv1 rewritten; the creations that follow number from there
SeedId == MaxPayments + 1

InitNumbered ==
    /\ sales_invoices =
            [i \in InvoiceIds |->
                IF i = InvoiceOrder[1]
                THEN SetPaidFields(NewInvoice, 1, TotalAmount - 1,
                                   determine_invoice_payment_status(TotalAmount, 1))
                ELSE NewInvoice]
    /\ purchase_challans = [c \in ChallanIds |-> NewChallan]
    /\ payments = (SeedId :> [payment_type |-> "receipt", payment_no |-> <<"REC", 1>>,
                              invoices |-> <<[invoice_id |-> InvoiceOrder[1],
                                              amount |-> 1]>>,
                              effect_on_passbook |-> FALSE])
    /\ bank_transactions = {}
    /\ inserted = 0
    /\ proc = [p \in Procs |-> IdleProc]
    /\ orphaned = {}
    /\ call = NoCall
    /\ InitInventory

\* requests strictly one at a time, each run to completion
NextNumbered ==
    \/ Request("r1", {FALSE})
    \/ delete_payment("r1", SeedId)
    \/ Step("r1")

SpecNumbered == InitNumbered /\ [][NextNumbered]_vars

\* the allocation lists a stored payment can hold: lines of a sales receipt or lines
\* of a supplier payment, the same target more than once as well
InvoiceLines == {[invoice_id |-> i, amount |-> a] : i \in InvoiceIds, a \in Amounts \ {0}}
ChallanLines == {[challan_id |-> c, amount |-> a] : c \in ChallanIds, a \in Amounts \ {0}}
StoredLines ==
    UNION {[1 .. n -> InvoiceLines] \cup [1 .. n -> ChallanLines] : n \in 0 .. MaxLines}

StoredPayment(k, lines) ==
    IF \A j \in DOMAIN lines : "invoice_id" \in DOMAIN lines[j]
    THEN [payment_type |-> "receipt", payment_no |-> <<"REC", k>>,
          invoices |-> lines, effect_on_passbook |-> FALSE]
    ELSE [payment_type |-> "cheque", payment_no |-> <<"PAY", k>>,
          invoices |-> lines, effect_on_passbook |-> FALSE]

\* the ledgers the reads are checked on: up to MaxPayments payments inserted by
\* creations that got as far as insert_one, no invoice or challan rewritten yet
InitLedger ==
    /\ sales_invoices = [i \in InvoiceIds |-> NewInvoice]
    /\ purchase_challans = [c \in ChallanIds |-> NewChallan]
    /\ \E n \in 0 .. MaxPayments : \E f \in [1 .. n -> StoredLines] :
            /\ payments = [k \in 1 .. n |-> StoredPayment(k, f[k])]
            /\ inserted = n
    /\ bank_transactions = {}
    /\ proc = [p \in Procs |-> IdleProc]
    /\ orphaned = {}
    /\ call = NoCall
    /\ InitInventory

\* the reconciliation reads of such a ledger
NextReads ==
    \/ \E ids \in SUBSET TargetIds : call_calculate_invoice_payments_bulk(ids)
    \/ \E ids \in SUBSET TargetIds : call_calculate_challan_payments_bulk(ids)
    \/ \E id \in TargetIds : call_calculate_single_invoice_paid(id)
    \/ \E id \in TargetIds : call_calculate_single_challan_paid(id)

SpecReads == InitLedger /\ [][NextReads]_vars

\* the derivations that depend on their arguments alone; the clock matters only to
\* a call that leaves as_of out
NextDerive ==
    \/ \E total_amount \in 0 .. TotalAmount, total_paid \in -1 .. TotalAmount + 1 :
            call_determine_invoice_payment_status(total_amount, total_paid)
    \/ \E total_amount \in 0 .. TotalAmount, total_paid \in -1 .. TotalAmount + 1 :
            call_determine_challan_payment_status(total_amount, total_paid)
    \/ \E total_amount \in {TotalAmount - 1, TotalAmount},
          total_paid \in 0 .. TotalAmount + 1,
          due_date \in {None} \cup {Some(t) : t \in Times}, interest_rate \in Rates,
          as_of \in {None} \cup {Some(t) : t \in Times},
          utcnow \in Times :
            /\ as_of # None => utcnow = 0
            /\ call_calculate_interest(total_amount, total_paid, due_date,
                                       interest_rate, as_of, utcnow)

SpecDerive == Init /\ [][NextDerive]_vars

\* the sales write path with its reads: receipts, payment deletions and invoice
\* deletions one at a time, and between any two of their steps a reconciliation of
\* invoices or enrich_invoices_with_payments over the invoices in the store
NextSales ==
    \/ \E ids \in SUBSET InvoiceIds : call_calculate_invoice_payments_bulk(ids)
    \/ \E id \in InvoiceIds : call_calculate_single_invoice_paid(id)
    \/ \E utcnow \in Times : call_enrich_invoices_with_payments(InvoiceIds, utcnow)
    \/ \E sel \in Selections(InvoiceOrder, 1 .. MaxAmt) :
            create_sales_receipt("r1", sel, FALSE)
    \/ \E payment_id \in PaymentIds : delete_payment("r1", payment_id)
    \/ \E invoice_id \in InvoiceIds : delete_invoice("r1", invoice_id)
    \/ sales_receipt_resolve("r1")
    \/ sales_receipt_insert("r1")
    \/ sales_receipt_find("r1")
    \/ sales_receipt_sum("r1")
    \/ sales_receipt_write("r1")
    \/ delete_payment_delete_one("r1")
    \/ delete_payment_sum("r1")
    \/ delete_payment_find("r1")
    \/ delete_payment_write("r1")
    \/ delete_invoice_delete_one("r1")

SpecSales == Init /\ [][NextSales]_vars

\* payments that affect the bank passbook: creations of both kinds with one line of
\* amount 1 and deletions, requests overlapping in every slot
PassbookMutation(p) ==
    \/ \E sel \in Selections(InvoiceOrder, {1}), eff \in BOOLEAN :
            Len(sel) = 1 /\ create_sales_receipt(p, sel, eff)
    \/ \E sel \in Selections(ChallanOrder, {1}), eff \in BOOLEAN :
            create_receipt(p, sel, eff)
    \/ \E payment_id \in PaymentIds : delete_payment(p, payment_id)
    \/ sales_receipt_resolve(p)
    \/ sales_receipt_insert(p)
    \/ sales_receipt_find(p)
    \/ sales_receipt_sum(p)
    \/ sales_receipt_write(p)
    \/ receipt_resolve(p)
    \/ receipt_insert(p)
    \/ receipt_find(p)
    \/ receipt_sum(p)
    \/ receipt_write(p)
    \/ delete_payment_delete_one(p)
    \/ delete_payment_sum(p)
    \/ delete_payment_find(p)
    \/ delete_payment_write(p)
    \/ PassbookStep(p)

NextPassbook == \E p \in Procs : PassbookMutation(p)

SpecPassbook == Init /\ [][NextPassbook]_vars

\* the same requests strictly one at a time, the process ending at any await
NextPassbookSerial ==
    \/ PassbookMutation("r1")
    \/ crash("r1")

SpecPassbookSerial == Init /\ [][NextPassbookSerial]_vars

\* the source challans a transfer request can name: a purchased challan, a challan
\* received through a transfer, and an id that has no document
SourceIds == ChallanIds \cup {MintedOrder[1], "chX"}

\* the recipients of a transfer request: up to two, each a party with boxes and meters
Recipients == [party_id : PartyIds, boxes : 1 .. MaxBoxes, meters : 1 .. MaxMeters]
RecipientLists == UNION {[1 .. n -> Recipients] : n \in 0 .. 2}

\* the recipients of the transfer form: a party and a quantity
FormRecipients == [party_id : PartyIds, boxes : 1 .. MaxBoxes, meters : {1}]
FormRecipientLists == UNION {[1 .. n -> FormRecipients] : n \in 0 .. 1}

\* the steps of the transfer operations running in slot p
TransferStep(p) ==
    \/ create_transfer_count(p)
    \/ create_transfer_party(p)
    \/ create_transfer_challan_number(p)
    \/ create_transfer_insert_challan(p)
    \/ create_transfer_insert_transfer(p)
    \/ create_transfer_update_source(p)
    \/ reverse_transfer_update_source(p)
    \/ reverse_transfer_delete_challan(p)
    \/ reverse_transfer_mark(p)
    \/ post_create_transfer_party(p)
    \/ post_create_transfer_insert(p)

\* transfers, reversals and the transfer form, one operation at a time
NextTransfers ==
    \/ \E source_challan_id \in SourceIds, recipients \in RecipientLists :
            create_transfer("r1", [source_challan_id |-> source_challan_id,
                                   recipients |-> recipients])
    \/ \E transfer_id \in TransferIds : reverse_transfer("r1", transfer_id)
    \/ \E source_challan_id \in SourceIds, recipients \in FormRecipientLists :
            post_create_transfer("r1", source_challan_id, recipients)
    \/ TransferStep("r1")

SpecTransfers == Init /\ [][NextTransfers]_vars

\* sales receipts, deletions of payments and edits of invoices, one request at a time
NextEdits ==
    \/ \E sel \in Selections(InvoiceOrder, 1 .. MaxAmt) :
            create_sales_receipt("r1", sel, FALSE)
    \/ \E payment_id \in PaymentIds : delete_payment("r1", payment_id)
    \/ \E invoice_id \in InvoiceIds, total_amount \in EditedTotals :
            update_invoice("r1", invoice_id, total_amount)
    \/ sales_receipt_resolve("r1")
    \/ sales_receipt_insert("r1")
    \/ sales_receipt_find("r1")
    \/ sales_receipt_sum("r1")
    \/ sales_receipt_write("r1")
    \/ delete_payment_delete_one("r1")
    \/ delete_payment_sum("r1")
    \/ delete_payment_find("r1")
    \/ delete_payment_write("r1")
    \/ update_invoice_customer("r1")
    \/ update_invoice_update_one("r1")

SpecEdits == Init /\ [][NextEdits]_vars

\* payments of both kinds, deletions and edits of payments, one request at a time
NextPaymentEdits ==
    \/ \E sel \in Selections(InvoiceOrder, 1 .. MaxAmt) :
            create_sales_receipt("r1", sel, FALSE)
    \/ \E sel \in Selections(ChallanOrder, 1 .. MaxAmt) :
            create_receipt("r1", sel, FALSE)
    \/ \E payment_id \in PaymentIds : delete_payment("r1", payment_id)
    \/ \E payment_id \in PaymentIds, form \in EditForms :
            edit_payment("r1", payment_id, form)
    \/ sales_receipt_resolve("r1")
    \/ sales_receipt_insert("r1")
    \/ sales_receipt_find("r1")
    \/ sales_receipt_sum("r1")
    \/ sales_receipt_write("r1")
    \/ receipt_resolve("r1")
    \/ receipt_insert("r1")
    \/ receipt_find("r1")
    \/ receipt_sum("r1")
    \/ receipt_write("r1")
    \/ delete_payment_delete_one("r1")
    \/ delete_payment_sum("r1")
    \/ delete_payment_find("r1")
    \/ delete_payment_write("r1")
    \/ edit_payment_update_one("r1")

SpecPaymentEdits == Init /\ [][NextPaymentEdits]_vars

\* the recipients of the overlapping transfers: one party that exists
RaceRecipientLists ==
    {<<recipient>> : recipient \in [party_id : parties, boxes : 1 .. MaxBoxes, meters : {1}]}

\* calls of create_transfer on one source challan and of reverse_transfer, from both
\* slots, overlapping at every await
NextTransferRace ==
    \E p \in Procs :
        \/ \E recipients \in RaceRecipientLists :
                create_transfer(p, [source_challan_id |-> ChallanOrder[1],
                                    recipients |-> recipients])
        \/ \E transfer_id \in TransferIds : reverse_transfer(p, transfer_id)
        \/ create_transfer_count(p)
        \/ create_transfer_party(p)
        \/ create_transfer_challan_number(p)
        \/ create_transfer_insert_challan(p)
        \/ create_transfer_insert_transfer(p)
        \/ create_transfer_update_source(p)
        \/ reverse_transfer_update_source(p)
        \/ reverse_transfer_delete_challan(p)
        \/ reverse_transfer_mark(p)

SpecTransferRace == Init /\ [][NextTransferRace]_vars

----------------------------------------------------------------------------
(* Sequence numbers: services/payment_service.py generate_sequence_number *)

\* the decimal digits of n, most significant first
RECURSIVE Digits(_)
Digits(n) == IF n < 10 THEN <<n>> ELSE Append(Digits(n \div 10), n % 10)

\* f"{seq:04d}": the digits of seq, zero-filled on the left to four places
RECURSIVE ZeroFill(_, _)
ZeroFill(digits, width) ==
    IF Len(digits) >= width THEN digits ELSE ZeroFill(<<0>> \o digits, width)

\* f"{prefix}{seq:04d}"
SequenceNumber(prefix, seq) == <<prefix>> \o ZeroFill(Digits(seq), 4)

\* the calls between their first await and their return
NumberingInFlight == Cardinality({q \in Procs : numbering[q].pc # "idle"})

\* the call returns the number made of the updated document's seq
ReturnNumber(p, seq, path) ==
    LET number == SequenceNumber(numbering[p].prefix, seq) IN
    /\ numbering' = [numbering EXCEPT ![p].pc = "idle", ![p].result = Some(number),
                                      ![p].path = path]
    /\ issued' = Append(issued, number)

\* generate_sequence_number(company_id, prefix), up to the await of get_collection
generate_sequence_number(p, prefix) ==
    /\ numbering[p].pc = "idle"
    /\ Len(issued) + NumberingInFlight < MaxIssued
    /\ numbering' = [numbering EXCEPT ![p] = [IdleNumbering EXCEPT
                         !.pc = "find_one_and_update", !.prefix = prefix]]
    /\ UNCHANGED <<counters, issued, ledger_only, inventory>>

\* find_one_and_update({company_id, prefix}, {$inc: {seq: 1}}, upsert, return the
\* updated document): a matching document is incremented and returned in one
\* step; with no match the server goes on to insert one
generate_sequence_number_find_one_and_update(p) ==
    /\ numbering[p].pc = "find_one_and_update"
    /\ LET prefix == numbering[p].prefix IN
       IF counters[prefix] # None
       THEN /\ counters' = [counters EXCEPT ![prefix] = Some(counters[prefix][1] + 1)]
            /\ ReturnNumber(p, counters[prefix][1] + 1, "update")
       ELSE /\ numbering' = [numbering EXCEPT ![p].pc = "upsert"]
            /\ UNCHANGED <<counters, issued>>
    /\ UNCHANGED <<ledger_only, inventory>>

\* a call whose upsert lost to another insert of the same key inserted a second
\* document, as the server does without the unique index
generate_sequence_number_upsert_no_unique_index(p) ==
    /\ numbering[p].pc = "upsert"
    /\ counters' = [counters EXCEPT ![numbering[p].prefix] = Some(1)]
    /\ ReturnNumber(p, 1, "insert")
    /\ UNCHANGED <<ledger_only, inventory>>

\* the insert of the upsert, a document with seq 1. The unique index on
\* (company_id, prefix) rejects it when another call has inserted the document
\* since the match: the server then either runs the operation again, as an
\* update, or the call raises DuplicateKeyError
generate_sequence_number_upsert(p) ==
    /\ numbering[p].pc = "upsert"
    /\ LET prefix == numbering[p].prefix IN
       IF counters[prefix] = None
       THEN /\ counters' = [counters EXCEPT ![prefix] = Some(1)]
            /\ ReturnNumber(p, 1, "insert")
       ELSE \/ /\ counters' = [counters EXCEPT ![prefix] = Some(counters[prefix][1] + 1)]
               /\ ReturnNumber(p, counters[prefix][1] + 1, "retry")
            \/ /\ numbering' = [numbering EXCEPT ![p].pc = "idle",
                                                  ![p].raised = "DuplicateKeyError"]
               /\ UNCHANGED <<counters, issued>>
    /\ UNCHANGED <<ledger_only, inventory>>

\* calls of generate_sequence_number from both slots, overlapping freely
NextSequences ==
    \E p \in Procs :
        \/ \E prefix \in Prefixes : generate_sequence_number(p, prefix)
        \/ generate_sequence_number_find_one_and_update(p)
        \/ generate_sequence_number_upsert(p)

SpecSequences == Init /\ [][NextSequences]_vars

----------------------------------------------------------------------------
(* Vocabulary of the properties *)

Creations == {"create_sales_receipt", "create_receipt"}
Mutations == Creations \cup {"delete_payment"}

\* slot p holds a request whose handler has returned with the given response
Returned(p, ops, resps) ==
    /\ proc[p].pc = "idle" /\ proc[p].op \in ops /\ proc[p].resp \in resps

\* the allocation lines of the payment a returned mutation created or deleted
LinesOf(r) == IF r.op = "delete_payment" THEN r.payment.invoices ELSE r.invoice_details

IsInvoiceLine(line) == "invoice_id" \in DOMAIN line
TargetOf(line) == IF IsInvoiceLine(line) THEN line.invoice_id ELSE line.challan_id
KeyOf(line) == IF IsInvoiceLine(line) THEN "invoice_id" ELSE "challan_id"
DocOf(line) ==
    IF IsInvoiceLine(line) THEN sales_invoices[line.invoice_id]
    ELSE purchase_challans[line.challan_id]

\* the ledger's total for the target of a line
LedgerPaid(line) ==
    IF IsInvoiceLine(line) THEN calculate_single_invoice_paid(payments, line.invoice_id)
    ELSE calculate_single_challan_paid(payments, line.challan_id)

\* the three stored fields of the line's target are the ones derived from the ledger
Fresh(line) ==
    LET doc == DocOf(line)
        paid == LedgerPaid(line)
    IN  /\ doc.paid_fields
        /\ doc.total_paid = paid
        /\ doc.outstanding = doc.total_amount - paid
        /\ doc.payment_status =
              IF IsInvoiceLine(line)
              THEN determine_invoice_payment_status(doc.total_amount, paid)
              ELSE determine_challan_payment_status(doc.total_amount, paid)

\* a selected id has no document in the collection the creation allocates to
MissingTarget(r) ==
    \E j \in DOMAIN r.selected :
        IF r.op = "create_sales_receipt"
        THEN ~sales_invoices[r.selected[j].invoice_id].present
        ELSE ~purchase_challans[r.selected[j].invoice_id].present

----------------------------------------------------------------------------
(* Properties of the one-request-at-a-time specification Spec *)

\* C1: when a payment creation or deletion has run to completion with nothing else
\* overlapping it, every existing target of the payment's allocation lines stores the
\* total_paid summed from the ledger as it now is (after a deletion: without the
\* deleted payment), outstanding = total_amount - total_paid and the derived status.
C1_CompletedMutationIsFresh ==
    \A p \in Procs :
        Returned(p, Mutations, {"ok"}) =>
            /\ (proc[p].payment_id \in DOMAIN payments) = (proc[p].op \in Creations)
            /\ \A j \in DOMAIN LinesOf(proc[p]) :
                   DocOf(LinesOf(proc[p])[j]).present => Fresh(LinesOf(proc[p])[j])

\* C1 witness: a deletion has returned and a target of the deleted payment still
\* stores a nonzero total_paid, the sum of the payments that remain.
C1_Witness ==
    \E p \in Procs :
        /\ Returned(p, {"delete_payment"}, {"ok"})
        /\ \E j \in DOMAIN LinesOf(proc[p]) :
               /\ DocOf(LinesOf(proc[p])[j]).present
               /\ DocOf(LinesOf(proc[p])[j]).total_paid > 0
               /\ LinesOf(proc[p])[j].amount # 0

\* a deletion has returned that directly followed, in the same slot, the completed
\* creation of the payment it deleted; undo is the snapshot taken before the creation
RoundTrip(p) ==
    /\ Returned(p, {"delete_payment"}, {"ok"})
    /\ proc[p].undo # <<>>

\* every allocation in the ledger and in the returned request is a positive amount
PositiveAmounts(p) ==
    /\ \A k \in DOMAIN payments : \A j \in DOMAIN payments[k].invoices :
           payments[k].invoices[j].amount > 0
    /\ \A j \in DOMAIN LinesOf(proc[p]) : LinesOf(proc[p])[j].amount > 0
    /\ \A j \in DOMAIN proc[p].selected : proc[p].selected[j].amount > 0

\* C2 as stated: after creating a payment on invoice X and deleting it again, X's
\* stored total_paid is exactly the value it had before the creation (checked here
\* for ledgers that hold positive amounts only).
C2_RoundTripRestoresStored ==
    \A p \in Procs :
        RoundTrip(p) /\ PositiveAmounts(p) =>
            \A j \in DOMAIN LinesOf(proc[p]) :
                LET X == LinesOf(proc[p])[j].invoice_id
                IN  sales_invoices[X].present =>
                        StoredPaid(sales_invoices[X]) = proc[p].undo[X].stored

\* C2 amended: after the round trip X's stored total_paid is the ledger's sum for X
\* as it was before the creation; that is the stored value of before whenever the
\* stored value was in step with the ledger then.
C2_RoundTripRestoresLedger ==
    \A p \in Procs :
        RoundTrip(p) =>
            \A j \in DOMAIN LinesOf(proc[p]) :
                LET X == LinesOf(proc[p])[j].invoice_id
                    before == proc[p].undo[X]
                IN  sales_invoices[X].present =>
                        /\ sales_invoices[X].paid_fields
                        /\ sales_invoices[X].total_paid = before.ledger
                        /\ (before.stored = before.ledger =>
                                StoredPaid(sales_invoices[X]) = before.stored)

\* C2 witness: a round trip with a nonzero amount on an invoice that was in step with
\* a nonzero ledger sum before, and stores that sum again.
C2_Witness ==
    \E p \in Procs :
        /\ RoundTrip(p)
        /\ \E j \in DOMAIN LinesOf(proc[p]) :
               LET X == LinesOf(proc[p])[j].invoice_id
               IN  /\ LinesOf(proc[p])[j].amount # 0
                   /\ sales_invoices[X].present
                   /\ proc[p].undo[X].stored = proc[p].undo[X].ledger
                   /\ proc[p].undo[X].stored # 0
                   /\ sales_invoices[X].total_paid = proc[p].undo[X].stored

\* the payments, other than the one of the returned request, that a creation inserted
\* and then left without the recompute of the line's target
OrphansOn(r, line) ==
    {o \in orphaned : /\ o.target = TargetOf(line)
                      /\ o.payment # r.payment_id
                      /\ o.payment \in DOMAIN payments}

\* C4: a creation inserted its payment and the process ended before a target was
\* rewritten; once the next creation or deletion that references that target has run
\* to completion, the target's three fields are the ones derived from the ledger, the
\* orphaned payment's lines included.
C4_NextMutationHeals ==
    \A p \in Procs :
        Returned(p, Mutations, {"ok"}) =>
            \A j \in DOMAIN LinesOf(proc[p]) :
                LET line == LinesOf(proc[p])[j]
                IN  \A o \in OrphansOn(proc[p], line) :
                        DocOf(line).present =>
                            /\ Fresh(line)
                            /\ DocOf(line).total_paid =
                                  LinesTotal(payments[o.payment].invoices,
                                             KeyOf(line), TargetOf(line))
                                  + GroupSum(payments, DOMAIN payments \ {o.payment},
                                             KeyOf(line), TargetOf(line))

\* C4 witness: a mutation has returned, one of its targets had been left stale by a
\* crashed creation whose payment is still in the ledger, and the target now stores a
\* total that counts that payment.
C4_Witness ==
    \E p \in Procs :
        /\ Returned(p, Mutations, {"ok"})
        /\ \E j \in DOMAIN LinesOf(proc[p]) :
               LET line == LinesOf(proc[p])[j]
               IN  /\ OrphansOn(proc[p], line) # {}
                   /\ DocOf(line).present
                   /\ DocOf(line).total_paid # 0
                   /\ DocOf(line).total_paid # line.amount

\* C5 as stated: a creation re-issued after the process ended between the payment
\* insert and the recompute leaves what one uninterrupted run leaves: one payment
\* document for the request, its allocation counted once in each target's total_paid.
C5_RetryCountsOnce ==
    \A p \in Procs :
        (Returned(p, Creations, {"ok"}) /\ proc[p].retry_of # 0) =>
            /\ proc[p].retry_of \notin DOMAIN payments
            /\ \A j \in DOMAIN LinesOf(proc[p]) :
                   LET line == LinesOf(proc[p])[j]
                   IN  DocOf(line).present =>
                           DocOf(line).total_paid =
                               GroupSum(payments, DOMAIN payments \ {proc[p].retry_of},
                                        KeyOf(line), TargetOf(line))

\* C7 as stated: in every reachable state an invoice's stored total_paid is at most
\* the sum of the amounts allocated to it in the ledger (checked here for ledgers
\* and requests that hold positive amounts only).
C7_StoredNeverExceedsLedger ==
    \A i \in InvoiceIds :
        (/\ sales_invoices[i].present /\ sales_invoices[i].paid_fields
         /\ \A p \in Procs : PositiveAmounts(p)) =>
            sales_invoices[i].total_paid <= calculate_single_invoice_paid(payments, i)

\* C8 as stated: a creation that selects an id with no document is rejected as a
\* whole: it does not return the redirect and no payment is inserted.
C8_MissingTargetRejected ==
    \A p \in Procs :
        (Returned(p, Creations, {"ok", "400", "404"}) /\ MissingTarget(proc[p])) =>
            /\ proc[p].resp # "ok"
            /\ proc[p].payment_id = 0

\* C9 as stated: a creation with an empty allocation list, or with an amount that is
\* not positive, is rejected: it does not return the redirect and no payment is
\* inserted.
C9_InvalidAllocationRejected ==
    \A p \in Procs :
        (/\ Returned(p, Creations, {"ok", "400", "404"})
         /\ \/ proc[p].selected = <<>>
            \/ \E j \in DOMAIN proc[p].selected : proc[p].selected[j].amount <= 0) =>
            /\ proc[p].resp # "ok"
            /\ proc[p].payment_id = 0

\* C10 as stated: deleting a sales invoice whose stored total_paid is nonzero is
\* rejected and the invoice stays in the store.
C10_PaidInvoiceDeleteRejected ==
    \A p \in Procs :
        (/\ Returned(p, {"delete_invoice"}, {"ok", "400", "404"})
         /\ proc[p].doc.present /\ proc[p].doc.paid_fields
         /\ proc[p].doc.total_paid # 0) =>
            /\ proc[p].resp = "400"
            /\ sales_invoices[proc[p].target].present

\* C11 as stated: deleting a purchase challan that an allocation line of a stored
\* payment references is rejected, and the challan stays in the store (checked here
\* for a challan whose payments are positive amounts and fully recorded on it).
C11_ReferencedChallanDeleteRejected ==
    \A p \in Procs :
        (/\ Returned(p, {"delete_challan"}, {"ok", "400", "404"})
         /\ proc[p].doc.present
         /\ HasLine(payments, "challan_id", proc[p].target)
         /\ PositiveAmounts(p)
         /\ proc[p].doc.paid_fields
         /\ proc[p].doc.total_paid =
                calculate_single_challan_paid(payments, proc[p].target)) =>
            /\ proc[p].resp # "ok"
            /\ purchase_challans[proc[p].target].present

----------------------------------------------------------------------------
(* Properties of the overlapping-requests specification SpecConc *)

\* C3 as stated: once two payment mutations on the same invoice have both completed,
\* however their reads and writes interleaved, the invoice's stored total_paid is the
\* sum of its allocation amounts over the payments then in the ledger.
C3_OverlappingMutationsEndFresh ==
    (\A p \in Procs : Returned(p, {"create_sales_receipt", "delete_payment"}, {"ok"})) =>
        \A X \in InvoiceIds :
            (/\ sales_invoices[X].present
             /\ \A p \in Procs : \E j \in DOMAIN LinesOf(proc[p]) :
                    LinesOf(proc[p])[j].invoice_id = X) =>
                StoredPaid(sales_invoices[X]) = calculate_single_invoice_paid(payments, X)

\* C6: at every point, between the writes of overlapping creations and deletions as
\* well, an invoice that stores total_paid and outstanding has
\* outstanding = total_amount - total_paid.
C6_OutstandingIsTotalMinusPaid ==
    \A i \in InvoiceIds :
        (sales_invoices[i].present /\ sales_invoices[i].paid_fields) =>
            sales_invoices[i].outstanding =
                sales_invoices[i].total_amount - sales_invoices[i].total_paid

\* C6 witness: a creation stands between the updates of its two invoices while a
\* deletion in the other slot has deleted its payment and not yet rewritten its
\* target; the invoice already rewritten stores a nonzero total_paid.
C6_Witness ==
    \E p, q \in Procs :
        /\ proc[p].op = "create_sales_receipt" /\ proc[p].pc = "find" /\ proc[p].idx = 2
        /\ sales_invoices[proc[p].selected[1].invoice_id].paid_fields
        /\ sales_invoices[proc[p].selected[1].invoice_id].total_paid > 0
        /\ sales_invoices[proc[p].selected[1].invoice_id].outstanding < TotalAmount
        /\ proc[q].op = "delete_payment" /\ proc[q].pc \in {"sum", "find", "write"}

\* C25: a creation stores the payment_no it derived from the count it read when it
\* began, whatever has been inserted since; so two creations of one kind that overlap
\* and read the same count before either inserts store the same payment_no.
C25_OverlappingCreationsShareNumber ==
    /\ \A p \in Procs :
            (proc[p].op \in Creations /\ proc[p].payment_id \in DOMAIN payments) =>
                payments[proc[p].payment_id].payment_no = proc[p].payment_no
    /\ \A p, q \in Procs :
            (/\ p # q
             /\ proc[p].op \in Creations /\ proc[q].op = proc[p].op
             /\ proc[p].payment_id \in DOMAIN payments
             /\ proc[q].payment_id \in DOMAIN payments
             /\ proc[p].payment_no = proc[q].payment_no) =>
                payments[proc[p].payment_id].payment_no
                    = payments[proc[q].payment_id].payment_no

\* C25 witness: two receipts with allocation lines are stored under one payment_no,
\* both creations have returned, and no payment has been deleted (every payment ever inserted is in the
\* ledger), so the two counts were read before either insert.
C25_Witness ==
    /\ \A p \in Procs : Returned(p, {"create_sales_receipt"}, {"ok"})
    /\ inserted = 2 /\ DOMAIN payments = 1 .. 2
    /\ payments[1].payment_no = payments[2].payment_no
    /\ \A k \in 1 .. 2 : payments[k].invoices # <<>>
    /\ \E p, q \in Procs : proc[p].payment_id = 1 /\ proc[q].payment_id = 2

----------------------------------------------------------------------------
(* Properties of the receipt / invoice-deletion specification SpecRace *)

\* C12 as stated: in every reachable state, however sales-receipt creations and
\* invoice deletions interleave, every allocation line of every stored payment
\* references an invoice that is still in the store.
C12_LedgerReferencesExistingInvoices ==
    \A k \in DOMAIN payments : \A j \in DOMAIN payments[k].invoices :
        IsInvoiceLine(payments[k].invoices[j]) =>
            sales_invoices[payments[k].invoices[j].invoice_id].present

----------------------------------------------------------------------------
(* Properties of the numbering specification SpecNumbered *)

\* C13 as stated: with creations and deletions running strictly one at a time, no
\* two payments that are in the store together carry the same payment_no (prefix
\* REC or PAY and number); checked here for payments that carry allocation lines of
\* positive amounts.
C13_PaymentNoUnique ==
    \A k1, k2 \in DOMAIN payments :
        (/\ k1 # k2
         /\ \A k \in {k1, k2} :
                /\ payments[k].invoices # <<>>
                /\ \A j \in DOMAIN payments[k].invoices :
                       payments[k].invoices[j].amount > 0) =>
            payments[k1].payment_no # payments[k2].payment_no

----------------------------------------------------------------------------
(* Properties of the reconciliation reads, specification SpecReads *)

\* the allocation lines of the ledger that target an id under a key: the payment
\* and the position of each
AllocationLines(key, id) ==
    {kj \in (DOMAIN payments) \X (1 .. MaxLines) :
        /\ kj[2] \in DOMAIN payments[kj[1]].invoices
        /\ key \in DOMAIN payments[kj[1]].invoices[kj[2]]
        /\ payments[kj[1]].invoices[kj[2]][key] = id}

RECURSIVE SumOfLines(_)
SumOfLines(positions) ==
    IF positions = {} THEN 0
    ELSE LET kj == CHOOSE x \in positions : TRUE
         IN  payments[kj[1]].invoices[kj[2]].amount + SumOfLines(positions \ {kj})

\* the map holds exactly the ids of S that some line targets, each with the sum of
\* the amounts of all the lines that target it
BulkIsExact(result, key, S) ==
    /\ DOMAIN result = {x \in S : AllocationLines(key, x) # {}}
    /\ \A x \in DOMAIN result : result[x] = SumOfLines(AllocationLines(key, x))

\* C14: the bulk reconciliation of an id set S maps exactly the ids of S with at
\* least one allocation line in the ledger to the sum of amount over all the lines
\* that target them (lines of one payment and of different payments alike, lines
\* for ids outside S and lines of the other ledger left out); ids of S with no line
\* are absent from the map.
C14_BulkMapsPaidIdsToTheirSums ==
    /\ call.fn = "calculate_invoice_payments_bulk" =>
            BulkIsExact(call.result, "invoice_id", call.args[1])
    /\ call.fn = "calculate_challan_payments_bulk" =>
            BulkIsExact(call.result, "challan_id", call.args[1])

\* C14 witness: a bulk call for {inv1, ch1} on a ledger where one payment holds two
\* lines for inv1 and another holds a line for inv1 and a line for inv2, while a
\* call for the challan id finds nothing: the map holds inv1 alone, with the sum of
\* its three lines.
C14_Witness ==
    /\ call.fn = "calculate_invoice_payments_bulk"
    /\ call.args[1] = {InvoiceOrder[1], ChallanOrder[1]}
    /\ DOMAIN call.result = {InvoiceOrder[1]}
    /\ Cardinality(AllocationLines("invoice_id", InvoiceOrder[1])) = 3
    /\ Cardinality({kj[1] : kj \in AllocationLines("invoice_id", InvoiceOrder[1])}) = 2
    /\ AllocationLines("invoice_id", InvoiceOrder[2]) # {}
    /\ call.result[InvoiceOrder[1]] = 3

\* the value a caller takes from the map for an id
Restricted(result, x) == IF x \in DOMAIN result THEN result[x] ELSE 0

\* C15: for every ledger, every id set S and every x in S, the bulk map taken at x
\* (0 when x is absent) is the single-target result for x, for invoices and for
\* challans.
C15_BulkRestrictedIsSingle ==
    /\ call.fn = "calculate_invoice_payments_bulk" =>
            \A x \in call.args[1] :
                Restricted(call.result, x) = calculate_single_invoice_paid(payments, x)
    /\ call.fn = "calculate_challan_payments_bulk" =>
            \A x \in call.args[1] :
                Restricted(call.result, x) = calculate_single_challan_paid(payments, x)
    /\ call.fn = "calculate_single_invoice_paid" =>
            \A S \in SUBSET TargetIds :
                call.args[1] \in S =>
                    Restricted(calculate_invoice_payments_bulk(payments, S),
                               call.args[1]) = call.result
    /\ call.fn = "calculate_single_challan_paid" =>
            \A S \in SUBSET TargetIds :
                call.args[1] \in S =>
                    Restricted(calculate_challan_payments_bulk(payments, S),
                               call.args[1]) = call.result

\* C15 witness: a bulk call for both invoices on a ledger where a payment holds
\* lines for both; the map holds two different nonzero sums.
C15_Witness ==
    /\ call.fn = "calculate_invoice_payments_bulk"
    /\ call.args[1] = InvoiceIds
    /\ DOMAIN call.result = InvoiceIds
    /\ \E k \in DOMAIN payments :
            \A i \in InvoiceIds : LinesTotal(payments[k].invoices, "invoice_id", i) # 0
    /\ call.result[InvoiceOrder[1]] > 0
    /\ call.result[InvoiceOrder[2]] < 0

----------------------------------------------------------------------------
(* Properties of the sales write path with its reads, specification SpecSales *)

Reconciliations ==
    {"calculate_invoice_payments_bulk", "calculate_challan_payments_bulk",
     "calculate_single_invoice_paid", "calculate_single_challan_paid"}

\* the step is the return of a payment_service call
Called(fns) ==
    /\ call'.fn \in fns
    /\ \/ call'.fn # call.fn
       \/ call'.args # call.args
       \/ call'.result # call.result

\* C16: a single-target or bulk reconciliation leaves every stored payment, invoice
\* and challan as it was, so the single-target call for the same id that directly
\* follows (taken on the state the first call leaves) returns the same value; for an
\* id that no allocation line targets, the id of a deleted invoice included, the
\* single-target call returns 0.
C16_ReconciliationOnlyReads ==
    [][/\ Called(Reconciliations) =>
            UNCHANGED <<sales_invoices, purchase_challans, payments, bank_transactions>>
       /\ Called({"calculate_single_invoice_paid"}) =>
            call'.result = calculate_single_invoice_paid(payments', call'.args[1])
       /\ (/\ Called({"calculate_single_invoice_paid"})
           /\ ~HasLine(payments', "invoice_id", call'.args[1])) =>
                call'.result = 0
      ]_vars

\* C16 witness: the single-target call for a deleted invoice has returned 0 while
\* the ledger holds a payment for the other invoice.
C16_Witness ==
    /\ call.fn = "calculate_single_invoice_paid"
    /\ ~sales_invoices[call.args[1]].present
    /\ call.result = 0
    /\ \E i \in InvoiceIds : HasLine(payments, "invoice_id", i)
    /\ Returned("r1", {"delete_invoice"}, {"ok"})

\* C20: accrued interest is never written to the store. Whatever receipts, payment
\* deletions and calls of enrich_invoices_with_payments (with calculate_interest
\* inside) have run, no invoice document holds an interest amount, and an invoice
\* differs from the document create_invoice wrote in nothing but total_paid,
\* outstanding and payment_status (and the update timestamp, which is not modelled).
C20_InterestNeverStored ==
    \A i \in InvoiceIds :
        /\ sales_invoices[i].interest_amount = None
        /\ sales_invoices[i].present =>
                [sales_invoices[i] EXCEPT !.paid_fields = FALSE, !.total_paid = 0,
                                          !.outstanding = 0,
                                          !.payment_status = "unpaid"] = NewInvoice

\* C20 witness: enrich_invoices_with_payments has returned a positive interest for
\* a partly paid, overdue invoice that a receipt has rewritten, and the stored
\* invoice holds its three payment fields and no interest.
C20_Witness ==
    /\ call.fn = "enrich_invoices_with_payments"
    /\ \E i \in DOMAIN call.result :
            /\ call.result[i].interest_amount # None
            /\ call.result[i].interest_amount[1].num > 0
            /\ call.result[i].total_paid > 0
            /\ sales_invoices[i].present /\ sales_invoices[i].paid_fields
            /\ sales_invoices[i].total_paid = call.result[i].total_paid
            /\ sales_invoices[i].interest_amount = None

----------------------------------------------------------------------------
(* Properties of the derivations, specification SpecDerive *)

\* C17: determine_invoice_payment_status returns "paid" exactly when
\* total_paid >= total_amount - 0.01, otherwise "partial" exactly when
\* total_paid > 0, otherwise "unpaid"; nothing but the two arguments enters.
C17_InvoiceStatusThresholds ==
    call.fn = "determine_invoice_payment_status" =>
        LET total_amount == call.args[1]
            total_paid == call.args[2]
            covered == total_paid >= total_amount - Eps
        IN  /\ call.result \in {"paid", "partial", "unpaid"}
            /\ call.result = "paid" <=> covered
            /\ call.result = "partial" <=> (~covered /\ total_paid > 0)
            /\ call.result = "unpaid" <=> (~covered /\ total_paid <= 0)

\* C17 witness: a positive total_paid that is 0.01 short of total_amount is "paid".
C17_Witness ==
    /\ call.fn = "determine_invoice_payment_status"
    /\ call.args[2] > 0
    /\ call.args[2] = call.args[1] - Eps
    /\ call.result = "paid"

\* C18 as stated: determine_challan_payment_status has the thresholds of the invoice
\* side: "completed" exactly when total_paid >= total_amount - 0.01, otherwise
\* "partial" exactly when total_paid > 0, otherwise no status (checked here for a
\* positive total_paid).
C18_ChallanStatusThresholds ==
    (call.fn = "determine_challan_payment_status" /\ call.args[2] > 0) =>
        LET total_amount == call.args[1]
            total_paid == call.args[2]
            covered == total_paid >= total_amount - Eps
        IN  /\ call.result = "completed" <=> covered
            /\ call.result = "partial" <=> (~covered /\ total_paid > 0)
            /\ call.result = "none" <=> (~covered /\ total_paid <= 0)

\* the whole days in a span of instants
WholeDays(span) ==
    CHOOSE d \in 0 .. MaxTime : d * DayParts <= span /\ span < (d + 1) * DayParts

\* C19: calculate_interest returns 0 when due_date is absent, when
\* interest_rate <= 0, when as_of <= due_date or when total_amount - total_paid <= 0;
\* in every other case (total_amount - total_paid) * interest_rate * overdue_days
\* / 36500, overdue_days the whole days from due_date to as_of; so the result is
\* never negative, and 0 when as_of is less than a full day past due_date.
C19_InterestFormula ==
    call.fn = "calculate_interest" =>
        LET total_amount == call.args[1]
            total_paid == call.args[2]
            due_date == call.args[3]
            interest_rate == call.args[4]
            as_of == IF call.args[5] # None THEN call.args[5][1] ELSE call.args[6]
            nothing == \/ due_date = None
                       \/ interest_rate <= 0
                       \/ as_of <= due_date[1]
                       \/ total_amount - total_paid <= 0
        IN  /\ call.result.den > 0
            /\ call.result.num >= 0
            /\ nothing => call.result.num = 0
            /\ ~nothing =>
                    call.result.num * 36500 =
                        (total_amount - total_paid) * interest_rate
                        * WholeDays(as_of - due_date[1]) * call.result.den
            /\ (due_date # None /\ as_of < due_date[1] + DayParts) =>
                    call.result.num = 0

\* C19 witness: a day and a part of a day past the due date, with a balance and a
\* rate: the interest is the one of a single day.
C19_Witness ==
    /\ call.fn = "calculate_interest"
    /\ call.args[3] # None /\ call.args[5] # None
    /\ call.args[5][1] - call.args[3][1] = DayParts + 1
    /\ call.args[1] - call.args[2] > 1
    /\ call.args[4] > 1
    /\ call.result.num = (call.args[1] - call.args[2]) * call.args[4]
    /\ call.result.den = 36500

----------------------------------------------------------------------------
(* Properties of the passbook specification SpecPassbook *)

\* no request is between two of its awaits
Quiescent == \A p \in Procs : proc[p].pc = "idle"

\* C21 as stated: once a payment deletion has completed, no passbook transaction
\* whose reference_id is the deleted payment's id remains; and in every state with no
\* operation in progress a passbook transaction tagged with a payment reference
\* refers to a payment that is in the ledger.
C21_PassbookFollowsLedger ==
    /\ \A p \in Procs :
            Returned(p, {"delete_payment"}, {"ok"}) =>
                \A t \in bank_transactions : t.reference_id # proc[p].payment_id
    /\ Quiescent =>
            \A t \in bank_transactions : t.reference_id \in DOMAIN payments

----------------------------------------------------------------------------
(* Properties of the transfer specification SpecTransfers *)

\* slot p holds a transfer operation that has returned or raised
Ended(p, ops, raised) ==
    /\ task[p].pc = "idle" /\ task[p].op \in ops /\ task[p].raised \in raised

\* no transfer operation is between two of its awaits
Settled == \A p \in Procs : task[p].pc = "idle"

\* C22: for every challan, in every state reached by any sequence of create_transfer
\* and reverse_transfer operations (between their steps as well),
\* available_boxes + transferred_boxes <= total_boxes and
\* available_meters + transferred_meters <= total_meters.
C22_StockWithinTotal ==
    \A c \in DOMAIN challan_stock :
        /\ challan_stock[c].available_boxes + challan_stock[c].transferred_boxes
                <= challan_stock[c].total_boxes
        /\ challan_stock[c].available_meters + challan_stock[c].transferred_meters
                <= challan_stock[c].total_meters

\* C22 witness: one transfer has been reversed and another one is in effect: its
\* source has part of its stock transferred and part available.
C22_Witness ==
    /\ Settled
    /\ \E k \in DOMAIN inventory_transfers :
            /\ "is_reversed" \in DOMAIN inventory_transfers[k]
            /\ inventory_transfers[k].is_reversed
    /\ \E c \in DOMAIN challan_stock :
            /\ challan_stock[c].transferred_boxes > 0
            /\ challan_stock[c].available_boxes > 0
            /\ challan_stock[c].available_boxes + challan_stock[c].transferred_boxes
                    = challan_stock[c].total_boxes

\* the four stock counters of a challan document
Counters(doc) ==
    <<doc.available_boxes, doc.available_meters,
      doc.transferred_boxes, doc.transferred_meters>>

\* the recipient challans of the transfer are gone and the transfer is marked
ReversalRecorded(transfer_id) ==
    /\ \A j \in DOMAIN inventory_transfers[transfer_id].recipients :
            inventory_transfers[transfer_id].recipients[j].created_challan_id
                \notin DOMAIN challan_stock
    /\ inventory_transfers[transfer_id].is_reversed
    /\ inventory_transfers[transfer_id].status = "cancelled"

OtherTransfers(transfer_id, source) ==
    {k \in DOMAIN inventory_transfers \ {transfer_id} :
        /\ inventory_transfers[k].source_challan_id = source
        /\ "boxes_transferred" \in DOMAIN inventory_transfers[k]}

InEffect(transfer) == ~("is_reversed" \in DOMAIN transfer /\ transfer.is_reversed)

\* the boxes a transfer record says it moved: boxes_transferred, or the
\* quantity_transferred of a record the form stored
BoxesOf(transfer) ==
    IF "boxes_transferred" \in DOMAIN transfer THEN transfer.boxes_transferred
    ELSE transfer.quantity_transferred

RECURSIVE BoxesOfAll(_)
BoxesOfAll(ks) ==
    IF ks = {} THEN 0
    ELSE LET k == CHOOSE x \in ks : TRUE
         IN  BoxesOf(inventory_transfers[k]) + BoxesOfAll(ks \ {k})

\* C24 as stated: with no operation in progress, every stored transfer record that
\* is in effect, whether InventoryService.create_transfer or the POST
\* /transfers/create handler stored it, has given each of its recipients a challan
\* flagged is_received_via_transfer, and every challan's transferred_boxes is the
\* sum of the boxes of the transfer records in effect whose source it is.
C24_TransferRecordsMoveStock ==
    Settled =>
        /\ \A k \in DOMAIN inventory_transfers :
                InEffect(inventory_transfers[k]) =>
                    \A j \in DOMAIN inventory_transfers[k].recipients :
                        LET recipient == inventory_transfers[k].recipients[j]
                        IN  /\ "created_challan_id" \in DOMAIN recipient
                            /\ recipient.created_challan_id \in DOMAIN challan_stock
                            /\ challan_stock[recipient.created_challan_id]
                                    .is_received_via_transfer
        /\ \A c \in DOMAIN challan_stock :
                challan_stock[c].transferred_boxes =
                    BoxesOfAll({k \in DOMAIN inventory_transfers :
                                    /\ InEffect(inventory_transfers[k])
                                    /\ inventory_transfers[k].source_challan_id = c})

\* C26: the calls of generate_sequence_number for one company and prefix return
\* pairwise different numbers, and the n-th of them to take effect returns the
\* number n (from 1, no gap, no repeat), also when the calls overlap in time.
C26_SequenceNumbersCountUp ==
    \A i \in DOMAIN issued :
        LET prefix == issued[i][1]
            n == Cardinality({j \in 1 .. i : issued[j][1] = prefix})
        IN /\ issued[i] = SequenceNumber(prefix, n)
           /\ \A j \in DOMAIN issued : j # i => issued[j] # issued[i]

\* two overlapping calls for one prefix found no counter document; one inserted it,
\* the other was run again by the server, and both have returned
C26_Witness ==
    \E p \in Procs, q \in Procs :
        /\ numbering[p].pc = "idle" /\ numbering[q].pc = "idle"
        /\ numbering[p].prefix = numbering[q].prefix
        /\ numbering[p].path = "insert" /\ numbering[q].path = "retry"
        /\ numbering[p].result # None /\ numbering[q].result # None
        /\ Len(issued) >= 3

\* C27: in every state with no operation in progress, after any sequence of payment
\* creations, payment deletions and invoice edits that change total_amount, an
\* invoice that stores total_paid and outstanding has outstanding = total_amount -
\* total_paid and payment_status = determine_invoice_payment_status(total_amount,
\* total_paid), total_amount being the one the invoice has now.
C27_EditKeepsOutstandingAndStatus ==
    Quiescent =>
        \A i \in InvoiceIds :
            (sales_invoices[i].present /\ sales_invoices[i].paid_fields) =>
                /\ sales_invoices[i].outstanding =
                        sales_invoices[i].total_amount - sales_invoices[i].total_paid
                /\ sales_invoices[i].payment_status =
                        determine_invoice_payment_status(sales_invoices[i].total_amount,
                                                         sales_invoices[i].total_paid)

\* the update_one of an edit_payment request in slot p
EditStep(p) ==
    /\ proc[p].op = "edit_payment" /\ proc[p].pc = "update_one"
    /\ proc'[p].pc = "idle" /\ proc'[p].resp \in {"ok", "404"}

\* C28: an edit of a payment leaves the allocation lines of that payment and every
\* invoice and challan document as they were, so the ledger sum of every target,
\* and the total_paid stored for it, are what they were before the edit; an edit of
\* a payment id that is not in the store changes nothing.
C28_EditPaymentKeepsAllocations ==
    [][\A p \in Procs :
        EditStep(p) =>
            LET id == proc[p].payment_id IN
            /\ sales_invoices' = sales_invoices
            /\ purchase_challans' = purchase_challans
            /\ DOMAIN payments' = DOMAIN payments
            /\ \A k \in DOMAIN payments : payments'[k].invoices = payments[k].invoices
            /\ \A i \in InvoiceIds :
                    calculate_single_invoice_paid(payments', i) =
                        calculate_single_invoice_paid(payments, i)
            /\ \A c \in ChallanIds :
                    calculate_single_challan_paid(payments', c) =
                        calculate_single_challan_paid(payments, c)
            /\ id \notin DOMAIN payments =>
                    /\ proc'[p].resp = "404"
                    /\ payments' = payments /\ bank_transactions' = bank_transactions
       ]_vars

\* an edit has returned: the payment carries the amount of the form, which is not
\* the sum of its lines, and the invoice of its line stores the ledger sum
C28_Witness ==
    /\ proc["r1"].pc = "idle" /\ proc["r1"].op = "edit_payment" /\ proc["r1"].resp = "ok"
    /\ LET id == proc["r1"].payment_id IN
        /\ id \in DOMAIN payments
        /\ "amount" \in DOMAIN payments[id]
        /\ payments[id].invoices # <<>>
        /\ IsInvoiceLine(payments[id].invoices[1])
        /\ payments[id].amount # payments[id].invoices[1].amount
        /\ sales_invoices[payments[id].invoices[1].invoice_id].total_paid > 0
        /\ Fresh(payments[id].invoices[1])

\* C29: a call of InventoryService.create_transfer that fails (source challan not
\* found, boxes or meters above the available ones, a recipient party not found)
\* leaves the store as it was when the call began: no counter of a challan changed,
\* no recipient challan and no transfer record inserted.
C29_FailedTransferChangesNothing ==
    \A p \in Procs :
        Ended(p, {"create_transfer"}, {"ValueError"}) =>
            /\ challan_stock = task[p].pre.challan_stock
            /\ inventory_transfers = task[p].pre.inventory_transfers

\* C30: while calls of create_transfer on one source challan and calls of
\* reverse_transfer on one transfer overlap, available_boxes and transferred_boxes
\* of every challan stay within 0 .. total_boxes.
C30_CountersStayInRange ==
    \A c \in DOMAIN challan_stock :
        /\ challan_stock[c].available_boxes \in 0 .. challan_stock[c].total_boxes
        /\ challan_stock[c].transferred_boxes \in 0 .. challan_stock[c].total_boxes

====
